---- MODULE Spec2Model ----
(***************************************************************************)
(* A model of the receive flow hash (RSS) part of safchain/ethtool:        *)
(*   - package flowhash: the fill policies Equal, Weight, Default, Delete  *)
(*     (flowhash/action.go);                                               *)
(*   - package flowhash: IndirectTable, its raw view and Clone;            *)
(*   - Ethtool.GetFlowHash and its legacy helper getFlowHashIndirectTable, *)
(*     Ethtool.SetFlowHash and its legacy helper setFlowHashIndirect, run  *)
(*     against a device that answers every SIOCETHTOOL ioctl;              *)
(*   - goString.                                                           *)
(*                                                                         *)
(* Go slices are 0-indexed and TLA+ sequences 1-indexed: Go's table[i] is  *)
(* table[i + 1] here.                                                      *)
(***************************************************************************)
EXTENDS Integers, Sequences, FiniteSets, TLC

VARIABLES
    pc,        \* position of the running call
    dev,       \* the network device behind the ioctl channel
    action,    \* the flowhash.Action whose Fill is called
    table,     \* the flowhash.IndirectTable handed to Fill, or built by a Get call
    filled,    \* what Fill returned: applied count, error, or a run-time panic
    o,         \* GetFlowHash: the flowhash.Config built from the options
    ringCount, \* the ethtoolRxnfc of the GRXRINGS query (its data field)
    rssHead,   \* the ethtoolRxfh header of the header-only GRSSH probe
    rss,       \* the calloc'ed ethtoolRxfh buffer: header, then table, then key
    indirHead, \* legacy path: the ethtoolRxfhIndir header of the size query
    indir,     \* legacy path: the calloc'ed ethtoolRxfhIndir buffer
    key,       \* GetFlowHash: the hash key copied out of the buffer
    gstrings,  \* getStringSet: the ethtoolGStrings request (its len field)
    ret,       \* what the call returned to its caller
    ioctls,    \* every SIOCETHTOOL request issued so far, with the device's answer
    c,         \* SetFlowHash: the flowhash.SetConfig built from the options
    hfuncBit,  \* SetFlowHash: the local hfunc, the bit of the requested function
    indirBytes,\* SetFlowHash: the table bytes counted into the request buffer
    ctxt,      \* SetFlowHash: the returned RSS context
    panicked,  \* the run-time panic that ended the call, if one did
    heap,      \* IndirectTable: the backing arrays, by name
    orig,      \* IndirectTable: the table t, a slice of one backing array
    clone,     \* IndirectTable: what t.Clone() returned
    view,      \* IndirectTable: what UnsafeRawIndirectTable returned
    cstr,      \* goString: the bytes s
    gostr,     \* goString: the returned string
    drvinfo,   \* Stats: the ethtoolDrvInfo of the GDRVINFO query (its n_stats field)
    stats,     \* Stats: the ethtoolStats request (its n_stats field)
    statsRet,  \* Stats: the map and error returned
    bitmap,    \* LinkModeTestBit: the words v, each the set of its set bits
    bitIndex,  \* LinkModeTestBit: the bit index
    tested,    \* LinkModeTestBit: the returned bool, or a run-time panic
    linkNames  \* LinkPortNames: the returned names

fillVars == <<action, filled>>
callVars == <<o, ringCount, rssHead, rss, indirHead, indir, key, gstrings, ret, ioctls>>
setVars == <<c, hfuncBit, indirBytes, ctxt, panicked>>
memVars == <<heap, orig, clone, view>>
strVars == <<cstr, gostr>>
statVars == <<drvinfo, stats, statsRet>>
linkVars == <<bitmap, bitIndex, tested, linkNames>>
otherVars == <<setVars, memVars, strVars, statVars, linkVars>>

-----------------------------------------------------------------------------
(* Bounds of the model.                                                    *)

\* Number of values of a uint32. The program has 2^32; TLC integers are 32
\* bits wide, so the model uses a narrower word and states every constant
\* of the program relative to it.
Uint32Range == 65536
MaxTable == 10     \* longest indirection table handed to Fill
MaxStart == 2      \* largest non-negative Start of an Equal or Weight action
MaxN == 3          \* largest N of an Equal action
MaxWeights == 2    \* longest Weights vector
MaxWeight == 7     \* largest single weight
MaxRings == 2      \* largest RX ring count of the device
MaxIndir == 2      \* largest indirection table size the device reports
MaxKey == 2        \* largest hash key size the device reports
MaxNames == 2      \* most entries of the device's RSS hash function string set
MaxContext == 1    \* largest RSS context a Get call asks for
MaxLen == 3        \* longest IndirectTable with freely chosen entries
MaxStr == 4        \* longest byte slice handed to goString
MaxStats == 2      \* statistics slots the device gives a name and a value
MaxWords == 2      \* longest link mode bitmap, in 32-bit words

-----------------------------------------------------------------------------
(* Go arithmetic.                                                          *)

Abs(x) == IF x < 0 THEN -x ELSE x

\* Go's integer division truncates toward zero (b # 0).
GoDiv(a, b) ==
    IF (a >= 0) = (b > 0) THEN Abs(a) \div Abs(b) ELSE -(Abs(a) \div Abs(b))

\* Go's remainder has the sign of the dividend (b # 0).
GoMod(a, b) == a - b * GoDiv(a, b)

\* The conversion uint32(x) of an int.
Uint32(x) == x % Uint32Range

SeqsUpTo(S, n) == UNION {[1..k -> S] : k \in 0..n}

RECURSIVE SumSeq(_)
SumSeq(s) == IF s = <<>> THEN 0 ELSE s[1] + SumSeq(Tail(s))

-----------------------------------------------------------------------------
(* flowhash/action.go                                                      *)

ETH_RXFH_CONTEXT_ALLOC == Uint32Range - 1
ETH_RXFH_INDIR_NO_CHANGE == Uint32Range - 1

NoError == "nil"
NoPanic == "none"
ErrNoWeight == "At least one weight must be non-zero"
ErrWeightExceeds == "Total weight exceeds the size of the indirection table"
PanicDivide == "integer divide by zero"
PanicIndex == "index out of range"

\* The outcome of a Fill call: the table as Fill leaves it, and either the
\* returned pair (n, err) or the run-time panic that ended the call.
FillResult(t, n, err, panic) ==
    [table |-> t, n |-> n, err |-> err, panic |-> panic]

\* EqualFill with the remainder taken of the 1-based position.
EqualFillOffByOne(e, t) ==
    IF Len(t) > 0 /\ e.N = 0
    THEN FillResult(t, 0, NoError, PanicDivide)
    ELSE FillResult([i \in 1..Len(t) |-> Uint32(e.Start + GoMod(i, e.N))],
                    Len(t), NoError, NoPanic)

\* EqualFill spreading over the N rings that follow Start instead of from Start.
EqualFillShifted(e, t) ==
    IF Len(t) > 0 /\ e.N = 0
    THEN FillResult(t, 0, NoError, PanicDivide)
    ELSE FillResult([i \in 1..Len(t) |-> Uint32(e.Start + GoMod(i - 1, e.N) + 1)],
                    Len(t), NoError, NoPanic)

\* (*Equal).Fill: for i := range table { table[i] = uint32(e.Start + i%e.N) }.
\* i % 0 panics at the first iteration, before any entry is written.
EqualFill(e, t) ==
    IF Len(t) > 0 /\ e.N = 0
    THEN FillResult(t, 0, NoError, PanicDivide)
    ELSE FillResult([i \in 1..Len(t) |-> Uint32(e.Start + GoMod(i - 1, e.N))],
                    Len(t), NoError, NoPanic)

\* WeightAdvance with the loop condition i > threshold instead of i >= threshold.
RECURSIVE WeightAdvanceStrict(_, _, _, _, _)
WeightAdvanceStrict(w, L, sum, i, st) ==
    IF i > GoDiv(L * st.partial, sum)
    THEN IF st.j + 1 >= Len(w)
         THEN [st EXCEPT !.j = st.j + 1, !.panic = PanicIndex]
         ELSE WeightAdvanceStrict(w, L, sum, i,
                                  [st EXCEPT !.j = st.j + 1,
                                             !.partial = st.partial + w[st.j + 2]])
    ELSE st

\* WeightAdvance moving on one index early: i + 1 >= threshold.
RECURSIVE WeightAdvanceEarly(_, _, _, _, _)
WeightAdvanceEarly(w, L, sum, i, st) ==
    IF i + 1 >= GoDiv(L * st.partial, sum)
    THEN IF st.j + 1 >= Len(w)
         THEN [st EXCEPT !.j = st.j + 1, !.panic = PanicIndex]
         ELSE WeightAdvanceEarly(w, L, sum, i,
                                 [st EXCEPT !.j = st.j + 1,
                                            !.partial = st.partial + w[st.j + 2]])
    ELSE st

\* The inner loop of (*Weight).Fill for one i:
\*   for i >= len(table)*partial/sum { j += 1; partial += w.Weights[j] }
\* st = [j, partial, panic]; reading w.Weights[j] with j >= len panics.
RECURSIVE WeightAdvance(_, _, _, _, _)
WeightAdvance(w, L, sum, i, st) ==
    IF i >= GoDiv(L * st.partial, sum)
    THEN IF st.j + 1 >= Len(w)
         THEN [st EXCEPT !.j = st.j + 1, !.panic = PanicIndex]
         ELSE WeightAdvance(w, L, sum, i,
                            [st EXCEPT !.j = st.j + 1,
                                       !.partial = st.partial + w[st.j + 2]])
    ELSE st

\* WeightLoop giving the runs to the rings in descending order.
RECURSIVE WeightLoopDescending(_, _, _, _, _, _)
WeightLoopDescending(w, start, sum, t, i, st) ==
    IF i >= Len(t)
    THEN FillResult(t, Len(t), NoError, NoPanic)
    ELSE LET nx == WeightAdvance(w, Len(t), sum, i, st)
         IN  IF nx.panic # NoPanic
             THEN FillResult(t, 0, NoError, nx.panic)
             ELSE WeightLoopDescending(w, start, sum,
                             [t EXCEPT ![i + 1] = Uint32(start + (Len(w) - 1 - nx.j))],
                             i + 1, nx)

\* The outer loop of (*Weight).Fill from index i on, with the table so far.
RECURSIVE WeightLoop(_, _, _, _, _, _)
WeightLoop(w, start, sum, t, i, st) ==
    IF i >= Len(t)
    THEN FillResult(t, Len(t), NoError, NoPanic)
    ELSE LET nx == WeightAdvance(w, Len(t), sum, i, st)
         IN  IF nx.panic # NoPanic
             THEN FillResult(t, 0, NoError, nx.panic)
             ELSE WeightLoop(w, start, sum,
                             [t EXCEPT ![i + 1] = Uint32(start + nx.j)],
                             i + 1, nx)

\* WeightFill rejecting a total weight equal to the table size.
WeightFillRejectsFull(w, t) ==
    LET sum == SumSeq(w.Weights)
    IN  IF sum = 0 THEN FillResult(t, 0, ErrNoWeight, NoPanic)
        ELSE IF sum >= Len(t) THEN FillResult(t, 0, ErrWeightExceeds, NoPanic)
        ELSE WeightLoop(w.Weights, w.Start, sum, t, 0,
                        [j |-> -1, partial |-> 0, panic |-> NoPanic])

\* (*Weight).Fill
WeightFill(w, t) ==
    LET sum == SumSeq(w.Weights)
    IN  IF sum = 0 THEN FillResult(t, 0, ErrNoWeight, NoPanic)
        ELSE IF sum > Len(t) THEN FillResult(t, 0, ErrWeightExceeds, NoPanic)
        ELSE WeightLoop(w.Weights, w.Start, sum, t, 0,
                        [j |-> -1, partial |-> 0, panic |-> NoPanic])

\* (*Default).Fill
DefaultFill(t) == FillResult(t, 0, NoError, NoPanic)

\* DeleteFill returning a zero count, as Default does.
DeleteFillZero(t) == FillResult(t, 0, NoError, NoPanic)

\* (*Delete).Fill
DeleteFill(t) == FillResult(t, ETH_RXFH_INDIR_NO_CHANGE, NoError, NoPanic)

\* Action.Fill, dispatched on the dynamic type of the action.
Fill(a, t) ==
    CASE a.kind = "Equal" -> EqualFill(a, t)
      [] a.kind = "Weight" -> WeightFill(a, t)
      [] a.kind = "Default" -> DefaultFill(t)
      [] a.kind = "Delete" -> DeleteFill(t)

-----------------------------------------------------------------------------
(* flowhash/indirect_table.go, and the layout of the ioctl buffers.        *)

IndirectTableItemSize == 4
sizeofEthtoolRxfh == 24
sizeofEthtoolRxfhIndir == 8
MAX_GSTRINGS == 32768
ETH_GSTRING_LEN == 32

IndirectTableSize(n) == IndirectTableItemSize * n

\* NewIndirectTable(n): n zeroed entries.
NewIndirectTable(n) == [i \in 1..n |-> 0]

\* (IndirectTable).Size()
TableSize(t) == Len(t) * IndirectTableItemSize

Zeros(n) == [i \in 1..n |-> 0]

\* A uint32 as the kernel lays it out: four bytes, least significant first.
LE32(v) ==
    <<v % 256, (v \div 256) % 256, (v \div 65536) % 256, (v \div 16777216) % 256>>

\* The bytes of the entries of t, one after the other.
TableBytes(t) ==
    [k \in 1..(IndirectTableItemSize * Len(t)) |->
        LE32(t[((k - 1) \div IndirectTableItemSize) + 1])[((k - 1) % IndirectTableItemSize) + 1]]

\* The i-th (0-based) uint32 of the bytes b.
Word(b, i) ==
    b[4 * i + 1] + 256 * b[4 * i + 2] + 65536 * b[4 * i + 3] + 16777216 * b[4 * i + 4]

Min(a, b) == IF a < b THEN a ELSE b

\* copy(dst, UnsafeRawIndirectTable(p, len)), p pointing at the bytes mem:
\* the first min(len(dst), len) entries of dst are read from mem.
CopyFromRaw(dst, mem, len) ==
    [i \in 1..Len(dst) |-> IF i <= len THEN Word(mem, i - 1) ELSE dst[i]]

\* The bytes that copy reads: they must lie inside mem.
RawReadInBounds(dst, mem, len) == IndirectTableItemSize * Min(Len(dst), len) <= Len(mem)

\* C.GoBytes(p + off, n) over the bytes mem that follow the header.
GoBytes(mem, off, n) == SubSeq(mem, off + 1, off + n)

-----------------------------------------------------------------------------
(* Errors.  An error is the errno it carries (errors.Is looks through the   *)
(* %w wrapping of fmt.Errorf) and the message of its outermost wrapping.    *)

\* syscall.ENOTSUP and syscall.EOPNOTSUPP are the same errno (95) on Linux.
EOPNOTSUPP == "EOPNOTSUPP"
ENOTSUP == EOPNOTSUPP
ERANGE == "ERANGE"
Errnos == {EOPNOTSUPP, "EPERM"}

NilErr == [errno |-> "", msg |-> ""]
Errno(e) == [errno |-> e, msg |-> ""]

\* fmt.Errorf with %v in place of %w: the message only, nothing to unwrap.
ErrorfOpaque(msg, err) == [errno |-> "", msg |-> msg]

\* fmt.Errorf("msg, %w", err)
Errorf(msg, err) == [errno |-> err.errno, msg |-> msg]
ErrorsIs(err, e) == err.errno = e

-----------------------------------------------------------------------------
(* The device.  It answers every ioctl with success ("") or an errno, and  *)
(* on success writes the header fields and, after the header, as many      *)
(* bytes of its table and key as the sizes stated in the request allow.    *)

Answers == {""} \cup Errnos

Names == {"toeplitz", "xor", ""}

\* String sets of at most n slots; a slot that starts with a zero byte has
\* the empty name, and no name is given to two slots.
StringSets(n) ==
    {s \in SeqsUpTo(Names, n) : \A i, j \in 1..Len(s) : (s[i] = s[j] /\ s[i] # "") => i = j}

\* The indirection table of the device: n ring indices.
DevTable(n) == [i \in 1..n |-> i % dev.rings]

\* The hash key of the device: k bytes.
DevKey(k) == [i \in 1..k |-> 16 + i]

\* What an ethtoolRxfh/ethtoolRxfhIndir request makes the device write after
\* the header when it answers with sizes n2, k2: its table, then its key, cut
\* to the room the request states.
DevPayload(n2, k2, room) ==
    LET all == TableBytes(DevTable(n2)) \o DevKey(k2)
    IN  SubSeq(all, 1, Min(Len(all), room))

\* The bytes after the header of a zeroed buffer of cap trailing bytes, once
\* the device has written payload into it.
Written(payload, cap) ==
    [i \in 1..cap |-> IF i <= Len(payload) THEN payload[i] ELSE 0]

\* One SIOCETHTOOL request and its answer: the command, the variable whose
\* address is passed and its size in bytes, the context and sizes stated in
\* the request header, the errno of the answer, the number of bytes the
\* device wrote after the header, and the count the answer reports (the ring
\* count of GRXRINGS, the string set length of GSSET_INFO).
Request(cmd, buf, bufsize, context, n, k, errno, written, data) ==
    [cmd |-> cmd, buf |-> buf, bufsize |-> bufsize, context |-> context,
     indir_size |-> n, key_size |-> k, errno |-> errno, written |-> written,
     data |-> data]

-----------------------------------------------------------------------------
(* The call frame of GetFlowHash.                                          *)

NoBuffer ==
    [state |-> "none", alloc |-> 0, rss_context |-> 0, indir_size |-> 0,
     key_size |-> 0, hfunc |-> 0, trail |-> <<>>]

\* An allocation that does not clear the bytes it hands out.
MallocDirty(sz, header) ==
    [state |-> "live", alloc |-> sz, rss_context |-> 0, indir_size |-> 0,
     key_size |-> 0, hfunc |-> 0, trail |-> [i \in 1..(sz - header) |-> 255]]

\* C.calloc(1, sz) for an ethtoolRxfh (or ethtoolRxfhIndir) of header bytes.
Calloc(sz, header) ==
    [state |-> "live", alloc |-> sz, rss_context |-> 0, indir_size |-> 0,
     key_size |-> 0, hfunc |-> 0, trail |-> Zeros(sz - header)]

\* A deferred C.free that never runs.
FreeLeaks(buf) == buf

\* C.free, run by the deferred call when the function returns or panics.
Free(buf) ==
    IF buf.state = "live" THEN [buf EXCEPT !.state = "freed"]
    ELSE IF buf.state = "freed" THEN [buf EXCEPT !.state = "freed twice"]
    ELSE buf

NoHeader == [rss_context |-> 0, indir_size |-> 0, key_size |-> 0, hfunc |-> 0]

NilFuncs == [isNil |-> TRUE, m |-> <<>>]
MapOf(m) == [isNil |-> FALSE, m |-> m]

FlowHash(rc, k, f, t) == [RingCount |-> rc, Key |-> k, Funcs |-> f, Table |-> t]
NilFlowHash == FlowHash(0, <<>>, NilFuncs, <<>>)

NotReturned == [isNil |-> TRUE, fh |-> NilFlowHash, err |-> NilErr]
ReturnErr(err) == [isNil |-> TRUE, fh |-> NilFlowHash, err |-> err]
ReturnOk(fh) == [isNil |-> FALSE, fh |-> fh, err |-> NilErr]

NoCall ==
    /\ o = [Context |-> 0]
    /\ ringCount = [data |-> 0]
    /\ rssHead = NoHeader
    /\ rss = NoBuffer
    /\ indirHead = [size |-> 0]
    /\ indir = NoBuffer
    /\ key = <<>>
    /\ gstrings = [len |-> 0]
    /\ ret = NotReturned
    /\ ioctls = <<>>

\* The interface value c.Action: its dynamic type ("" for a nil interface)
\* and whether the pointer it holds is nil.  The pointee is in action.
Iface(type, ptr) == [type |-> type, ptr |-> ptr]
NilAction == Iface("", "nil")

SetConfig(k, f, cx, a) == [Key |-> k, Func |-> f, Context |-> cx, Action |-> a]

\* No SetFlowHash call.
NoSet ==
    /\ c = SetConfig(<<>>, "", 0, NilAction)
    /\ hfuncBit = 0
    /\ indirBytes = 0
    /\ ctxt = 0
    /\ panicked = NoPanic

NoSlice == [arr |-> "", len |-> 0]

\* No use of an IndirectTable.
NoTable ==
    /\ heap = <<>>
    /\ orig = NoSlice
    /\ clone = NoSlice
    /\ view = NoSlice

\* No goString call.
NoString ==
    /\ cstr = <<>>
    /\ gostr = <<>>

\* A uint32 of the Stats call, kept at its full width as two 16-bit halves.
HalfWord == 256 * 256
Word32(hi, lo) == [hi |-> hi, lo |-> lo]
Const32(x) == Word32(x \div HalfWord, x % HalfWord)

StatsReturn(isNil, m, err) == [isNil |-> isNil, stats |-> m, err |-> err]

\* No Stats call.
NoStats ==
    /\ drvinfo = [n_stats |-> Const32(0)]
    /\ stats = [n_stats |-> Const32(0)]
    /\ statsRet = StatsReturn(TRUE, <<>>, NilErr)

NotTested == [value |-> FALSE, panic |-> NoPanic]

\* No use of a link mode bitmap.
NoLink ==
    /\ bitmap = <<>>
    /\ bitIndex = 0
    /\ tested = NotTested
    /\ linkNames = <<>>

\* HfuncBit testing the bit above the one asked for.
HfuncBitShifted(h, i) == i < 8 /\ (h \div (2 ^ (i + 1))) % 2 = 1

\* Bit i of the byte h, as rss.hfunc & (1 << i) computes it: the shifted 1
\* is a byte, so the mask is zero from i = 8 on.
HfuncBit(h, i) == i < 8 /\ (h \div (2 ^ i)) % 2 = 1

\* getStringSet's result loop: the name of every slot i < length that has
\* one, mapped to i; a later slot overwrites an earlier one of the same name.
StringSetOf(names, length) ==
    LET named == {names[i] : i \in 1..length} \ {""}
    IN  [nm \in named |->
            (CHOOSE i \in 1..length :
                /\ names[i] = nm
                /\ \A j \in 1..length : names[j] = nm => j <= i) - 1]

\* GetFlowHash's loop over hfuncs: every name mapped to its bit of hfunc.
FuncsOf(hfuncs, hfunc) == [nm \in DOMAIN hfuncs |-> HfuncBit(hfunc, hfuncs[nm])]

-----------------------------------------------------------------------------
(* The inputs of a Fill call.                                              *)

Starts == -1..MaxStart
Divisors == -1..MaxN
WeightValues == -1..MaxWeight

Equal(start, n) == [kind |-> "Equal", Start |-> start, N |-> n, Weights |-> <<>>]
Weight(start, ws) == [kind |-> "Weight", Start |-> start, N |-> 0, Weights |-> ws]
Default == [kind |-> "Default", Start |-> 0, N |-> 0, Weights |-> <<>>]
Delete == [kind |-> "Delete", Start |-> 0, N |-> 0, Weights |-> <<>>]

Actions ==
    {Equal(s, n) : s \in Starts, n \in Divisors}
    \cup {Weight(s, ws) : s \in Starts, ws \in SeqsUpTo(WeightValues, MaxWeights)}
    \cup {Default, Delete}

\* A table as NewIndirectTable or a raw view gives it to Fill: n entries, all
\* holding v (zero after calloc/make, anything for a table the caller reuses).
TableOf(n, v) == [i \in 1..n |-> v]

NotCalled == FillResult(<<>>, 0, NoError, "not called")

\* The device as far as a fill is concerned: its RX ring count.
FillDevices ==
    [rings : 1..MaxRings, indir_size : {0}, key_size : {0}, hfunc : {0}, names : {<<>>}]

InitFill ==
    /\ pc = "fill"
    /\ dev \in FillDevices
    /\ action \in Actions
    /\ \E n \in 0..MaxTable, v \in {0, 5} : table = TableOf(n, v)
    /\ filled = NotCalled
    /\ NoCall
    /\ NoSet /\ NoTable /\ NoString /\ NoStats /\ NoLink

\* One call of action.Fill(table): the table is written in place.
CallFill(kind) ==
    /\ pc = "fill"
    /\ action.kind = kind
    /\ filled' = Fill(action, table)
    /\ table' = filled'.table
    /\ pc' = "filled"
    /\ UNCHANGED <<otherVars, dev, action, callVars>>

FillEqual == CallFill("Equal")
FillWeight == CallFill("Weight")
FillDefault == CallFill("Default")
FillDelete == CallFill("Delete")

NextFill == FillEqual \/ FillWeight \/ FillDefault \/ FillDelete

vars == <<pc, dev, table, fillVars, callVars, otherVars>>

SpecFill == InitFill /\ [][NextFill]_vars

-----------------------------------------------------------------------------
(* Ethtool.GetFlowHash, one action per ioctl it issues.                    *)

Devices ==
    [rings : 1..MaxRings, indir_size : 0..MaxIndir, key_size : 0..MaxKey,
     hfunc : 0..(2 ^ MaxNames - 1), names : StringSets(MaxNames)]

InitGet ==
    /\ pc = "GetFlowHash"
    /\ dev \in Devices
    /\ o \in [Context : 0..MaxContext]
    /\ action = Default
    /\ table = <<>>
    /\ filled = NotCalled
    /\ ringCount = [data |-> 0]
    /\ rssHead = NoHeader
    /\ rss = NoBuffer
    /\ indirHead = [size |-> 0]
    /\ indir = NoBuffer
    /\ key = <<>>
    /\ gstrings = [len |-> 0]
    /\ ret = NotReturned
    /\ ioctls = <<>>
    /\ NoSet /\ NoTable /\ NoString /\ NoStats /\ NoLink

\* return nil, err (the deferred frees run)
GetFails(err) ==
    /\ ret' = ReturnErr(err)
    /\ rss' = Free(rss)
    /\ indir' = Free(indir)
    /\ pc' = "done"

\* Lines 1106-1110: the ring count query.
GetRingCount ==
    /\ pc = "GetFlowHash"
    /\ \E e \in Answers :
        /\ ioctls' = Append(ioctls, Request("GRXRINGS", "ringCount", 0, 0, 0, 0, e, 0,
                                         IF e = "" THEN dev.rings ELSE 0))
        /\ IF e # ""
           THEN /\ GetFails(Errorf("get RX ring count", Errno(e)))
                /\ UNCHANGED ringCount
           ELSE /\ ringCount' = [data |-> dev.rings]
                /\ pc' = "probe"
                /\ UNCHANGED <<rss, indir, ret>>
    /\ UNCHANGED <<otherVars, dev, table, fillVars, o, rssHead, indirHead, key, gstrings>>

\* Lines 1112-1135: the header-only GRSSH probe; on success the table and the
\* zeroed buffer are allocated and the request header is filled in.
GetProbe ==
    /\ pc = "probe"
    /\ \E e \in Answers :
        /\ ioctls' = Append(ioctls,
               Request("GRSSH", "rssHead", sizeofEthtoolRxfh, o.Context, 0, 0, e, 0, 0))
        /\ IF e # ""
           THEN IF ErrorsIs(Errno(e), EOPNOTSUPP) /\ o.Context # 0
                THEN /\ pc' = "legacy"
                     /\ UNCHANGED <<rssHead, rss, indir, ret, table>>
                ELSE /\ GetFails(Errorf("get RX flow hash indir size and/or key size",
                                        Errno(e)))
                     /\ UNCHANGED <<rssHead, table>>
           ELSE /\ rssHead' = [rss_context |-> o.Context, indir_size |-> dev.indir_size,
                               key_size |-> dev.key_size, hfunc |-> dev.hfunc]
                /\ table' = NewIndirectTable(dev.indir_size)
                /\ LET sz == sizeofEthtoolRxfh + TableSize(table') + dev.key_size
                   IN  rss' = [Calloc(sz, sizeofEthtoolRxfh) EXCEPT
                                  !.rss_context = o.Context,
                                  !.indir_size = dev.indir_size,
                                  !.key_size = dev.key_size]
                /\ pc' = "full"
                /\ UNCHANGED <<indir, ret>>
    /\ UNCHANGED <<otherVars, dev, fillVars, o, ringCount, indirHead, key, gstrings>>

\* Lines 1141-1164 for the buffer r the device has answered into: the table
\* and key copied out, or the error the decoding returns.
Decode(r, sz) ==
    IF sizeofEthtoolRxfh + TableSize(table) > sz
    THEN [err |-> Errorf("get RX flow indirect table", Errno(ERANGE)),
          table |-> table, key |-> <<>>]
    ELSE LET t == CopyFromRaw(table, r.trail, r.indir_size)
             off == sizeofEthtoolRxfh + TableSize(table)
         IN  IF r.key_size > 0 /\ off + r.key_size > sz
             THEN [err |-> Errno(ERANGE), table |-> t, key |-> <<>>]
             ELSE LET k == IF r.key_size > 0
                           THEN GoBytes(r.trail, off - sizeofEthtoolRxfh, r.key_size)
                           ELSE <<>>
                  IN  IF r.hfunc = 0
                      THEN [err |-> Errno(ENOTSUP), table |-> t, key |-> k]
                      ELSE [err |-> NilErr, table |-> t, key |-> k]

\* Lines 1137-1164: the full GRSSH request and the decoding of its answer.
GetFull ==
    /\ pc = "full"
    /\ \E e \in Answers, n2 \in 0..MaxIndir, k2 \in 0..MaxKey :
        LET room == IndirectTableSize(rss.indir_size) + rss.key_size
            payload == DevPayload(n2, k2, room)
            answered == [rss EXCEPT !.indir_size = n2, !.key_size = k2,
                                    !.hfunc = dev.hfunc,
                                    !.trail = Written(payload, Len(rss.trail))]
            d == Decode(answered, rss.alloc)
        IN  IF e # ""
            THEN /\ n2 = 0 /\ k2 = 0
                 /\ ioctls' = Append(ioctls,
                        Request("GRSSH", "rss", rss.alloc, rss.rss_context,
                                rss.indir_size, rss.key_size, e, 0, 0))
                 /\ GetFails(Errorf("get RX flow hash configuration", Errno(e)))
                 /\ UNCHANGED <<table, key>>
            ELSE /\ ioctls' = Append(ioctls,
                        Request("GRSSH", "rss", rss.alloc, rss.rss_context,
                                rss.indir_size, rss.key_size, e, Len(payload), 0))
                 /\ table' = d.table
                 /\ key' = d.key
                 /\ IF d.err # NilErr
                    THEN /\ ret' = ReturnErr(d.err)
                         /\ rss' = Free(answered)
                         /\ pc' = "done"
                    ELSE /\ rss' = answered
                         /\ pc' = "sset_info"
                         /\ UNCHANGED ret
                 /\ UNCHANGED indir
    /\ UNCHANGED <<otherVars, dev, fillVars, o, ringCount, rssHead, indirHead, gstrings>>

\* return &flowhash.FlowHash{...}, nil at the end of GetFlowHash
GetReturns(funcs) ==
    /\ ret' = ReturnOk(FlowHash(ringCount.data, key, funcs, table))
    /\ rss' = Free(rss)
    /\ pc' = "done"

\* getStringSet, lines 933-959: the ETHTOOL_GSSET_INFO query of the length of
\* the hash function string set.  The device clears sset_mask for a set it
\* does not have, and otherwise reports the length in data.
GetSsetInfo ==
    /\ pc = "sset_info"
    /\ \E e \in Answers, mask \in {0, 1}, data \in {Len(dev.names), MAX_GSTRINGS + 1} :
        LET length == IF mask # 0 THEN data ELSE 0
        IN  /\ ioctls' = Append(ioctls, Request("GSSET_INFO", "ssetInfo", 0, 0, 0, 0, e, 0,
                                             IF e = "" THEN length ELSE 0))
            /\ IF e # ""
               THEN /\ mask = 0 /\ data = Len(dev.names)
                    /\ GetFails(Errorf("get hash functions names", Errno(e)))
                    /\ UNCHANGED gstrings
               ELSE IF length = 0
               THEN /\ data = Len(dev.names)
                    /\ GetReturns(MapOf(FuncsOf(<<>>, rss.hfunc)))
                    /\ UNCHANGED <<gstrings, indir>>
               ELSE IF length > MAX_GSTRINGS
               THEN /\ GetFails([errno |-> "", msg |-> "get hash functions names"])
                    /\ UNCHANGED gstrings
               ELSE /\ gstrings' = [len |-> length]
                    /\ pc' = "gstrings"
                    /\ UNCHANGED <<rss, indir, ret>>
    /\ UNCHANGED <<otherVars, dev, table, fillVars, o, ringCount, rssHead, indirHead, key>>

\* getStringSet, lines 961-981, and GetFlowHash, lines 1166-1181: the
\* ETHTOOL_GSTRINGS query, the name table and the function map.
GetStrings ==
    /\ pc = "gstrings"
    /\ \E e \in Answers :
        /\ ioctls' = Append(ioctls, Request("GSTRINGS", "gstrings", 0, 0, 0, 0, e, 0, 0))
        /\ IF e # ""
           THEN GetFails(Errorf("get hash functions names", Errno(e)))
           ELSE /\ GetReturns(MapOf(FuncsOf(StringSetOf(dev.names, gstrings.len),
                                            rss.hfunc)))
                /\ UNCHANGED indir
    /\ UNCHANGED <<otherVars, dev, table, fillVars, o, ringCount, rssHead, indirHead, key, gstrings>>

-----------------------------------------------------------------------------
(* Ethtool.getFlowHashIndirectTable, the legacy path of GetFlowHash.       *)

\* Lines 1185-1199: the size query, then the table and the zeroed buffer.
LegacySize ==
    /\ pc = "legacy"
    /\ \E e \in Answers :
        /\ ioctls' = Append(ioctls,
               Request("GRXFHINDIR", "indirHead", sizeofEthtoolRxfhIndir, 0, 0, 0, e, 0, 0))
        /\ IF e # ""
           THEN /\ GetFails(Errorf("get RX flow hash indirection table size", Errno(e)))
                /\ UNCHANGED <<indirHead, table>>
           ELSE /\ indirHead' = [size |-> dev.indir_size]
                /\ table' = NewIndirectTable(dev.indir_size)
                /\ LET sz == sizeofEthtoolRxfhIndir + TableSize(table')
                   IN  indir' = [Calloc(sz, sizeofEthtoolRxfhIndir) EXCEPT
                                    !.indir_size = dev.indir_size]
                /\ pc' = "legacy_full"
                /\ UNCHANGED <<rss, ret>>
    /\ UNCHANGED <<otherVars, dev, fillVars, o, ringCount, rssHead, key, gstrings>>

\* Lines 1201-1219: the second GRXFHINDIR request.  It is issued on
\* &indirHead, the 8-byte header of the size query, whose size field now
\* states the table size: the device writes its table behind that header,
\* not into the buffer indir, which stays as calloc left it.  Bytes written
\* behind the header overwrite memory of the process, which then either goes
\* on or crashes.
LegacyFull ==
    /\ pc = "legacy_full"
    /\ \E e \in Answers, n2 \in 0..MaxIndir, crash \in BOOLEAN :
        LET payload == DevPayload(n2, 0, IndirectTableSize(indirHead.size))
            written == IF e = "" THEN Len(payload) ELSE 0
            sz == indir.alloc
        IN  /\ ioctls' = Append(ioctls,
                   Request("GRXFHINDIR", "indirHead", sizeofEthtoolRxfhIndir, 0,
                           indirHead.size, 0, e, written, 0))
            /\ IF e # ""
               THEN /\ n2 = 0 /\ ~crash
                    /\ GetFails(Errorf("get RX flow hash indirection table", Errno(e)))
                    /\ UNCHANGED <<indirHead, table>>
               ELSE /\ indirHead' = [size |-> n2]
                    /\ IF crash
                       THEN /\ written > 0
                            /\ pc' = "crashed"
                            /\ UNCHANGED <<rss, indir, ret, table>>
                       ELSE IF indir.indir_size = 0
                       THEN /\ GetFails(Errno(ENOTSUP))
                            /\ UNCHANGED table
                       ELSE IF sizeofEthtoolRxfhIndir + TableSize(table) > sz
                       THEN /\ GetFails(Errorf("get RX flow indirect table", Errno(ERANGE)))
                            /\ UNCHANGED table
                       ELSE /\ table' = CopyFromRaw(table, indir.trail, indir.indir_size)
                            /\ ret' = ReturnOk(FlowHash(ringCount.data, <<>>, NilFuncs, table'))
                            /\ indir' = Free(indir)
                            /\ pc' = "done"
                            /\ UNCHANGED rss
    /\ UNCHANGED <<otherVars, dev, fillVars, o, ringCount, rssHead, key, gstrings>>

NextGet ==
    \/ GetRingCount
    \/ GetProbe
    \/ GetFull
    \/ GetSsetInfo
    \/ GetStrings
    \/ LegacySize
    \/ LegacyFull

SpecGet == InitGet /\ [][NextGet]_vars

-----------------------------------------------------------------------------
(* Ethtool.SetFlowHash.                                                    *)

PanicConversion == "interface conversion"
PanicNilDeref == "nil pointer dereference"

\* The type assertion x.(*T) in its one-result form: it panics unless the
\* dynamic type of x is *T (a nil interface included), and otherwise yields
\* the pointer held, which may be nil.
TypeAssert(x, type) ==
    IF x.type = type
    THEN [panic |-> NoPanic, isNil |-> x.ptr = "nil"]
    ELSE [panic |-> PanicConversion, isNil |-> TRUE]

\* c.Action.Fill(table): a method call on a nil interface panics; on a nil
\* pointer the method runs and panics where it reads a field of the receiver.
ActionFill(x, a, t) ==
    IF x.type = "" THEN FillResult(t, 0, NoError, PanicNilDeref)
    ELSE IF x.ptr # "nil" THEN Fill(a, t)
    ELSE CASE x.type = "Equal" ->
                  IF Len(t) > 0 THEN FillResult(t, 0, NoError, PanicNilDeref)
                  ELSE FillResult(t, 0, NoError, NoPanic)
           [] x.type = "Weight" -> FillResult(t, 0, NoError, PanicNilDeref)
           [] x.type = "Default" -> DefaultFill(t)
           [] x.type = "Delete" -> DeleteFill(t)

\* Lines 1244-1248: the table bytes counted into the request buffer.
IndirBytesOf(x, size) ==
    LET eq == TypeAssert(x, "Equal")
        wt == TypeAssert(x, "Weight")
    IN  IF eq.panic # NoPanic THEN [panic |-> eq.panic, bytes |-> 0]
        ELSE IF ~eq.isNil THEN [panic |-> NoPanic, bytes |-> IndirectTableSize(size)]
        ELSE IF wt.panic # NoPanic THEN [panic |-> wt.panic, bytes |-> 0]
        ELSE IF ~wt.isNil THEN [panic |-> NoPanic, bytes |-> IndirectTableSize(size)]
        ELSE [panic |-> NoPanic, bytes |-> 0]

\* Lines 1260-1262: hfunc = 1 << v for the index v of the name, as a byte.
ResolveHfunc(funcs, name) ==
    IF name \in DOMAIN funcs THEN (2 ^ funcs[name]) % 256 ELSE 0

ErrUnknownHash == [errno |-> "", msg |-> "unknown hash function"]
ErrStringSetTooLong == [errno |-> "", msg |-> "get hash functions names"]
FillError(e) == [errno |-> "", msg |-> e]

\* The objects an action pointer may point to.
SetObjects ==
    {Equal(0, 1), Equal(MaxStart, MaxN), Weight(0, <<1>>), Weight(0, <<0>>),
     Weight(0, <<MaxWeight>>), Default, Delete}

\* The values of c.Action with their pointee: no action at all, a nil pointer
\* of each type, a pointer to each object.
SetActions ==
    {<<NilAction, Default>>}
    \cup {<<Iface(k, "nil"), Default>> : k \in {"Equal", "Weight", "Default", "Delete"}}
    \cup {<<Iface(a.kind, "obj"), a>> : a \in SetObjects}

SetKeys == {<<>>, <<7>>}
SetFuncs == {"", "xor", "crc32"}
SetContexts == (0..MaxContext) \cup {ETH_RXFH_CONTEXT_ALLOC}

\* The devices of a set call: the ring count is not used, and of the hash
\* function bitmask only whether it is zero.
SetDevices ==
    [rings : {1}, indir_size : 0..MaxIndir, key_size : {0, MaxKey},
     hfunc : {0, 1}, names : StringSets(MaxNames)]

InitSet ==
    /\ pc = "SetFlowHash"
    /\ dev \in SetDevices
    /\ \E a \in SetActions, k \in SetKeys, f \in SetFuncs, cx \in SetContexts :
        /\ c = SetConfig(k, f, cx, a[1])
        /\ action = a[2]
    /\ hfuncBit = 0
    /\ indirBytes = 0
    /\ ctxt = 0
    /\ panicked = NoPanic
    /\ table = <<>>
    /\ filled = NotCalled
    /\ NoCall
    /\ NoTable /\ NoString /\ NoStats /\ NoLink

setFrame == <<dev, fillVars, o, key, c, memVars, strVars, statVars, linkVars>>

\* return with err set (ctxt is still zero; the deferred frees run)
SetFails(err) ==
    /\ ret' = ReturnErr(err)
    /\ rss' = Free(rss)
    /\ indir' = Free(indir)
    /\ pc' = "done"
    /\ UNCHANGED <<ctxt, panicked>>

\* a run-time panic unwinds the call (the deferred frees run)
SetPanics(msg) ==
    /\ panicked' = msg
    /\ rss' = Free(rss)
    /\ indir' = Free(indir)
    /\ pc' = "panicked"
    /\ UNCHANGED <<ctxt, ret>>

SetGoes(next) ==
    /\ pc' = next
    /\ UNCHANGED <<rss, indir, ret, ctxt, panicked>>

\* Lines 1227-1232: the ring count query.
SetRingCount ==
    /\ pc = "SetFlowHash"
    /\ \E e \in Answers :
        /\ ioctls' = Append(ioctls, Request("GRXRINGS", "ringCount", 0, 0, 0, 0, e, 0,
                                         IF e = "" THEN dev.rings ELSE 0))
        /\ IF e # ""
           THEN /\ SetFails(Errorf("get RX ring count", Errno(e)))
                /\ UNCHANGED ringCount
           ELSE /\ ringCount' = [data |-> dev.rings]
                /\ SetGoes("set_probe")
    /\ UNCHANGED <<table, rssHead, indirHead, gstrings, hfuncBit, indirBytes, setFrame>>

\* Lines 1234-1252: the header-only GRSSH probe (its rss_context is left
\* zero), the choice of the legacy path, and the sizing of the table bytes.
SetProbe ==
    /\ pc = "set_probe"
    /\ \E e \in Answers :
        /\ ioctls' = Append(ioctls,
               Request("GRSSH", "rssHead", sizeofEthtoolRxfh, 0, 0, 0, e, 0, 0))
        /\ IF e # ""
           THEN /\ UNCHANGED <<rssHead, indirBytes>>
                /\ IF ErrorsIs(Errno(e), EOPNOTSUPP) /\ Len(c.Key) = 0 /\ c.Func = ""
                   THEN LET del == TypeAssert(c.Action, "Delete")
                        IN  IF del.panic # NoPanic THEN SetPanics(del.panic)
                            ELSE IF del.isNil THEN SetGoes("set_legacy")
                            ELSE SetFails(Errorf(
                                     "get RX flow hash indir size and key size", Errno(e)))
                   ELSE SetFails(Errorf("get RX flow hash indir size and key size",
                                        Errno(e)))
           ELSE LET ib == IndirBytesOf(c.Action, dev.indir_size)
                IN  /\ rssHead' = [rss_context |-> 0, indir_size |-> dev.indir_size,
                                   key_size |-> dev.key_size, hfunc |-> dev.hfunc]
                    /\ indirBytes' = ib.bytes
                    /\ IF ib.panic # NoPanic THEN SetPanics(ib.panic)
                       ELSE IF dev.hfunc # 0 /\ Len(c.Func) > 0
                       THEN SetGoes("set_sset_info")
                       ELSE SetGoes("set_request")
    /\ UNCHANGED <<table, ringCount, indirHead, gstrings, hfuncBit, setFrame>>

\* Lines 1254-1267 when getStringSet has returned funcs.
SetResolves(funcs) ==
    LET h == ResolveHfunc(funcs, c.Func)
    IN  /\ hfuncBit' = h
        /\ IF h = 0 THEN SetFails(ErrUnknownHash) ELSE SetGoes("set_request")

\* getStringSet, lines 933-959, called from line 1254.
SetSsetInfo ==
    /\ pc = "set_sset_info"
    /\ \E e \in Answers, mask \in {0, 1}, data \in {Len(dev.names), MAX_GSTRINGS + 1} :
        LET length == IF mask # 0 THEN data ELSE 0
        IN  /\ ioctls' = Append(ioctls, Request("GSSET_INFO", "ssetInfo", 0, 0, 0, 0, e, 0,
                                             IF e = "" THEN length ELSE 0))
            /\ IF e # ""
               THEN /\ mask = 0 /\ data = Len(dev.names)
                    /\ SetFails(Errorf("get hash functions names", Errno(e)))
                    /\ UNCHANGED <<gstrings, hfuncBit>>
               ELSE IF length = 0
               THEN /\ data = Len(dev.names)
                    /\ SetResolves(<<>>)
                    /\ UNCHANGED gstrings
               ELSE IF length > MAX_GSTRINGS
               THEN /\ SetFails(ErrStringSetTooLong)
                    /\ UNCHANGED <<gstrings, hfuncBit>>
               ELSE /\ gstrings' = [len |-> length]
                    /\ SetGoes("set_gstrings")
                    /\ UNCHANGED hfuncBit
    /\ UNCHANGED <<table, ringCount, rssHead, indirHead, indirBytes, setFrame>>

\* getStringSet, lines 961-981, and lines 1255-1267: the names, and the bit
\* of the requested one.
SetStrings ==
    /\ pc = "set_gstrings"
    /\ \E e \in Answers :
        /\ ioctls' = Append(ioctls, Request("GSTRINGS", "gstrings", 0, 0, 0, 0, e, 0, 0))
        /\ IF e # ""
           THEN /\ SetFails(Errorf("get hash functions names", Errno(e)))
                /\ UNCHANGED hfuncBit
           ELSE SetResolves(StringSetOf(dev.names, gstrings.len))
    /\ UNCHANGED <<table, ringCount, rssHead, indirHead, gstrings, indirBytes, setFrame>>

\* UnsafeRawIndirectTable(p, len) over the zeroed bytes mem that follow a
\* header: len entries read from mem (entries past the end of mem lie
\* outside the allocation).
RawView(mem, len) ==
    [i \in 1..len |-> IF IndirectTableItemSize * i <= Len(mem) THEN Word(mem, i - 1) ELSE 0]

\* The bytes mem once data has been stored at offset off.
WriteRaw(mem, off, data) ==
    [i \in 1..Len(mem) |-> IF off < i /\ i <= off + Len(data) THEN data[i - off] ELSE mem[i]]

\* The device's answer to a request for a new context.
NewContexts == {MaxContext + 1}

\* Lines 1270-1276: the request buffer and its header.
SetAlloc ==
    /\ pc = "set_request"
    /\ LET sz == sizeofEthtoolRxfh + indirBytes + rssHead.key_size
       IN  rss' = [Calloc(sz, sizeofEthtoolRxfh) EXCEPT
                      !.rss_context = Uint32(c.Context), !.hfunc = hfuncBit]
    /\ pc' = "set_fill"
    /\ UNCHANGED <<indir, ret, ctxt, panicked, ioctls>>
    /\ UNCHANGED <<table, ringCount, rssHead, indirHead, gstrings, hfuncBit, indirBytes,
                   setFrame>>

\* Lines 1278-1310: the fill into the buffer, the key, the SRSSH request and
\* the returned context.
SetFill ==
    /\ pc = "set_fill"
    /\ LET del == TypeAssert(c.Action, "Delete")
           tbl == RawView(rss.trail, rssHead.indir_size)
           f == IF del.isNil THEN ActionFill(c.Action, action, tbl)
                ELSE FillResult(tbl, 0, NoError, NoPanic)
           filledBuf == IF del.isNil
                        THEN [rss EXCEPT !.key_size = rssHead.key_size,
                                         !.indir_size = Uint32(f.n),
                                         !.trail = WriteRaw(@, 0, TableBytes(f.table))]
                        ELSE rss
           keyed == [filledBuf EXCEPT !.trail = WriteRaw(@, indirBytes, c.Key)]
           overrun == indirBytes + Len(c.Key) > Len(rss.trail)
       IN  IF del.panic # NoPanic
           THEN SetPanics(del.panic) /\ UNCHANGED ioctls
           ELSE IF f.panic # NoPanic
           THEN SetPanics(f.panic) /\ UNCHANGED ioctls
           ELSE IF f.err # NoError
           THEN SetFails(FillError(f.err)) /\ UNCHANGED ioctls
           ELSE \E e \in Answers, id \in NewContexts, crash \in BOOLEAN :
                /\ ioctls' = Append(ioctls,
                       Request("SRSSH", "rss", rss.alloc, keyed.rss_context,
                               keyed.indir_size, keyed.key_size, e, 0, 0))
                /\ IF crash
                   THEN /\ overrun
                        /\ pc' = "crashed"
                        /\ UNCHANGED <<rss, indir, ret, ctxt, panicked>>
                   ELSE IF e # ""
                   THEN /\ ret' = ReturnErr(Errorf("set RX flow hash configuration",
                                                   Errno(e)))
                        /\ rss' = Free(keyed)
                        /\ pc' = "done"
                        /\ UNCHANGED <<indir, ctxt, panicked>>
                   ELSE LET new == IF keyed.rss_context = ETH_RXFH_CONTEXT_ALLOC
                                   THEN id ELSE keyed.rss_context
                        IN  /\ ctxt' = IF c.Context = ETH_RXFH_CONTEXT_ALLOC
                                       THEN new ELSE 0
                            /\ ret' = ReturnErr(NilErr)
                            /\ rss' = Free([keyed EXCEPT !.rss_context = new])
                            /\ pc' = "done"
                            /\ UNCHANGED <<indir, panicked>>
    /\ UNCHANGED <<table, ringCount, rssHead, indirHead, gstrings, hfuncBit, indirBytes,
                   setFrame>>

-----------------------------------------------------------------------------
(* Ethtool.setFlowHashIndirect, the legacy path of SetFlowHash.            *)

\* Lines 1315-1335: the size query, the zeroed buffer and the fill into it.
SetLegacySize ==
    /\ pc = "set_legacy"
    /\ \E e \in Answers :
        /\ ioctls' = Append(ioctls,
               Request("GRXFHINDIR", "indirHead", sizeofEthtoolRxfhIndir, 0, 0, 0, e, 0, 0))
        /\ IF e # ""
           THEN /\ SetFails(Errorf("get RX flow hash indirection table size", Errno(e)))
                /\ UNCHANGED <<indirHead, table>>
           ELSE LET sz == sizeofEthtoolRxfhIndir + IndirectTableSize(dev.indir_size)
                    buf == [Calloc(sz, sizeofEthtoolRxfhIndir) EXCEPT
                               !.indir_size = dev.indir_size]
                    f == ActionFill(c.Action, action, RawView(buf.trail, dev.indir_size))
                IN  /\ indirHead' = [size |-> dev.indir_size]
                    /\ IF f.panic # NoPanic
                       THEN /\ panicked' = f.panic
                            /\ indir' = Free(buf)
                            /\ pc' = "panicked"
                            /\ UNCHANGED <<rss, ret, ctxt, table>>
                       ELSE IF f.err # NoError
                       THEN /\ ret' = ReturnErr(FillError(f.err))
                            /\ indir' = Free(buf)
                            /\ pc' = "done"
                            /\ UNCHANGED <<rss, ctxt, panicked, table>>
                       ELSE /\ indir' = [buf EXCEPT
                                            !.indir_size = Uint32(f.n),
                                            !.trail = WriteRaw(@, 0, TableBytes(f.table))]
                            /\ table' = f.table
                            /\ pc' = "set_legacy_set"
                            /\ UNCHANGED <<rss, ret, ctxt, panicked>>
    /\ UNCHANGED <<ringCount, rssHead, gstrings, hfuncBit, indirBytes, setFrame>>

\* Lines 1337-1341 and 1237: the SRXFHINDIR request; the call returns context 0.
SetLegacySet ==
    /\ pc = "set_legacy_set"
    /\ \E e \in Answers :
        /\ ioctls' = Append(ioctls,
               Request("SRXFHINDIR", "indir", indir.alloc, 0, indir.indir_size, 0, e, 0, 0))
        /\ IF e # ""
           THEN SetFails(Errorf("set RX flow hash indirection table", Errno(e)))
           ELSE SetFails(NilErr)
    /\ UNCHANGED <<table, ringCount, rssHead, indirHead, gstrings, hfuncBit, indirBytes,
                   setFrame>>

NextSet ==
    \/ SetRingCount
    \/ SetProbe
    \/ SetSsetInfo
    \/ SetStrings
    \/ SetAlloc
    \/ SetFill
    \/ SetLegacySize
    \/ SetLegacySet

SpecSet == InitSet /\ [][NextSet]_vars

-----------------------------------------------------------------------------
(* flowhash.IndirectTable: Size, the raw view and Clone.  A table is a     *)
(* slice: the name of its backing array in heap, and its length.  The      *)
(* array "t" backs the table t, "n" the slice that Clone makes, and "buf"  *)
(* is a C buffer of bytes.                                                 *)

PanicSlice == "slice bounds out of range"

\* The length of the array type behind the raw view, [1 << 24]uint32: the
\* 2^-8 part of the uint32 range.
RawViewCap == Uint32Range \div 256

\* The entries of the slice sl; those of a view over the bytes of buf are
\* read from the bytes.
Entries(h, sl) ==
    IF sl.arr = "buf"
    THEN [i \in 1..sl.len |-> Word(h.buf, i - 1)]
    ELSE SubSeq(h[sl.arr], 1, sl.len)

\* sl[i] = v, i counted from 0.
Store(h, sl, i, v) ==
    IF sl.arr = "buf"
    THEN [h EXCEPT !.buf = WriteRaw(@, IndirectTableItemSize * i, LE32(v))]
    ELSE [h EXCEPT ![sl.arr] = [@ EXCEPT ![i + 1] = v]]

\* UnsafeRawIndirectTable(ptr, len) with ptr the address of buf:
\* (*[1 << 24]uint32)(ptr)[:len], which panics for len above the array length.
UnsafeRawIndirectTable(len) ==
    IF len > RawViewCap
    THEN [panic |-> PanicSlice, slice |-> NoSlice]
    ELSE [panic |-> NoPanic, slice |-> [arr |-> "buf", len |-> len]]

\* A Clone that returns its receiver.
CloneAliases(h, sl) == [slice |-> sl, heap |-> h]

\* (IndirectTable).Clone: n := make(IndirectTable, len(t)); copy(n, t)
Clone(h, sl) ==
    [slice |-> [arr |-> "n", len |-> sl.len],
     heap |-> [h EXCEPT !.n = Entries(h, sl)]]

EntryValues == {0, 1, Uint32Range - 1}

\* A table of n entries too long to choose its entries freely.
Pattern(n) == [i \in 1..n |-> i % 3]

Tables ==
    UNION {[1..k -> EntryValues] : k \in 0..MaxLen}
    \cup {Pattern(RawViewCap), Pattern(RawViewCap + 1)}

NoDevice == [rings |-> 1, indir_size |-> 0, key_size |-> 0, hfunc |-> 0, names |-> <<>>]

\* A table t, and a C buffer that holds its bytes.
InitTable ==
    /\ pc = "table"
    /\ \E tab \in Tables :
        /\ heap = [t |-> tab, buf |-> TableBytes(tab), n |-> <<>>]
        /\ orig = [arr |-> "t", len |-> Len(tab)]
    /\ clone = NoSlice
    /\ view = NoSlice
    /\ dev = NoDevice
    /\ action = Default
    /\ table = <<>>
    /\ filled = NotCalled
    /\ NoCall
    /\ NoSet /\ NoString /\ NoStats /\ NoLink

tableFrame ==
    <<dev, table, fillVars, callVars, c, hfuncBit, indirBytes, ctxt, strVars,
      statVars, linkVars>>

\* view := UnsafeRawIndirectTable(buf, len(t))
TableRaw ==
    /\ pc = "table"
    /\ view = NoSlice
    /\ LET r == UnsafeRawIndirectTable(orig.len)
       IN  IF r.panic # NoPanic
           THEN /\ panicked' = r.panic
                /\ pc' = "panicked"
                /\ UNCHANGED view
           ELSE /\ view' = r.slice
                /\ UNCHANGED <<pc, panicked>>
    /\ UNCHANGED <<heap, orig, clone, tableFrame>>

\* clone := t.Clone()
TableClone ==
    /\ pc = "table"
    /\ clone = NoSlice
    /\ LET r == Clone(heap, orig)
       IN  /\ clone' = r.slice
           /\ heap' = r.heap
    /\ UNCHANGED <<pc, panicked, orig, view, tableFrame>>

\* A write to the first or last entry of t, of the clone or of the view.
TableWrite ==
    /\ pc = "table"
    /\ \E sl \in {orig, clone, view} \ {NoSlice} :
       \E i \in {0, sl.len - 1} \cap (0..(sl.len - 1)), v \in {2, Uint32Range - 1} :
           heap' = Store(heap, sl, i, v)
    /\ pc' = "written"
    /\ UNCHANGED <<panicked, orig, clone, view, tableFrame>>

NextTable == TableRaw \/ TableClone \/ TableWrite

SpecTable == InitTable /\ [][NextTable]_vars

-----------------------------------------------------------------------------
(* goString.  A Go string is the sequence of its bytes.                    *)

\* bytes.IndexByte returning the index of the last instance of b.
IndexByteLast(s, b) ==
    IF \E i \in 1..Len(s) : s[i] = b
    THEN (CHOOSE i \in 1..Len(s) : s[i] = b /\ \A j \in (i + 1)..Len(s) : s[j] # b) - 1
    ELSE -1

\* bytes.IndexByte(s, b): the index of the first instance of b in s, or -1.
IndexByte(s, b) ==
    IF \E i \in 1..Len(s) : s[i] = b
    THEN (CHOOSE i \in 1..Len(s) : s[i] = b /\ \A j \in 1..(i - 1) : s[j] # b) - 1
    ELSE -1

\* goString(s)
GoString(s) ==
    LET strEnd == IndexByte(s, 0)
    IN  IF strEnd = -1 THEN s ELSE SubSeq(s, 1, strEnd)

\* The bytes of the strings tried: the zero byte, '.' and '1'.
Chars == {0, 46, 49}

InitString ==
    /\ pc = "goString"
    /\ cstr \in SeqsUpTo(Chars, MaxStr)
    /\ gostr = <<>>
    /\ dev = NoDevice
    /\ action = Default
    /\ table = <<>>
    /\ filled = NotCalled
    /\ NoCall
    /\ NoSet /\ NoTable /\ NoStats /\ NoLink

\* gostr := goString(cstr)
CallGoString ==
    /\ pc = "goString"
    /\ gostr' = GoString(cstr)
    /\ pc' = "returned"
    /\ UNCHANGED <<cstr, dev, table, fillVars, callVars, setVars, memVars,
                   statVars, linkVars>>

NextString == CallGoString

SpecString == InitString /\ [][NextString]_vars

-----------------------------------------------------------------------------
(* Stats.  n_stats is a uint32 at its full width: the check of line 1061   *)
(* multiplies it in uint32.                                                *)

\* x * m in uint32, for a constant m < 2^15.
Mul32(x, m) ==
    Word32((x.hi * m + ((x.lo * m) \div HalfWord)) % HalfWord, (x.lo * m) % HalfWord)

\* x > y in uint32
Gt32(x, y) == x.hi > y.hi \/ (x.hi = y.hi /\ x.lo > y.lo)

\* drvinfo.n_stats*ETH_GSTRING_LEN > MAX_GSTRINGS*ETH_GSTRING_LEN
TooManyStats(x) ==
    Gt32(Mul32(x, ETH_GSTRING_LEN), Const32(MAX_GSTRINGS * ETH_GSTRING_LEN))

ErrTooManyStats ==
    [errno |-> "", msg |-> "ethtool currently doesn't support more than 32768 entries"]

\* gstrings.data[i*ETH_GSTRING_LEN : i*ETH_GSTRING_LEN+ETH_GSTRING_LEN] is
\* within the array of MAX_GSTRINGS * ETH_GSTRING_LEN bytes.
NameSliceInRange(i) ==
    i * ETH_GSTRING_LEN + ETH_GSTRING_LEN <= MAX_GSTRINGS * ETH_GSTRING_LEN

\* The loop of lines 1087-1097 runs i over 0..n_stats-1: it gets to the
\* index MAX_GSTRINGS, whose slice expression panics, iff n_stats is larger.
StatsLoopPanics(x) ==
    Gt32(x, Const32(MAX_GSTRINGS)) /\ ~NameSliceInRange(MAX_GSTRINGS)

\* The slots of the device that the loop reads and that may hold a name.
NamedSlots(x) == IF x.hi > 0 \/ x.lo > MaxStats THEN MaxStats ELSE x.lo

\* The map built by the loop: result[key] = stats.data[i] for every slot
\* whose name is not empty, a later slot replacing an earlier one.
StatsMap(names, values, x) ==
    LET slots == 1..NamedSlots(x)
        keys == {names[i] : i \in slots} \ {""}
    IN  [k \in keys |->
            values[CHOOSE i \in slots :
                       names[i] = k /\ \A h \in slots : names[h] = k => h <= i]]

\* The n_stats a driver reports: few, the limit and one more, and the
\* values around 2^32 / ETH_GSTRING_LEN, where the product wraps.
WrapCount == HalfWord * (HalfWord \div ETH_GSTRING_LEN)
StatCounts ==
    {Const32(0), Const32(1), Const32(MaxStats),
     Const32(MAX_GSTRINGS), Const32(MAX_GSTRINGS + 1),
     Const32(WrapCount - 1), Const32(WrapCount), Const32(WrapCount + 1),
     Const32(WrapCount + MAX_GSTRINGS), Const32(WrapCount + MAX_GSTRINGS + 1),
     Word32(HalfWord - 1, HalfWord - 1)}

StatNames == {"rx", "tx", ""}

\* The device of a Stats call: its count, and the names and values of its
\* first MaxStats slots (the other slots have the empty name).
StatsDevices ==
    [n_stats : StatCounts,
     names : [1..MaxStats -> StatNames],
     values : {[i \in 1..MaxStats |-> 7 * i]}]

InitStats ==
    /\ pc = "Stats"
    /\ dev \in StatsDevices
    /\ action = Default
    /\ table = <<>>
    /\ filled = NotCalled
    /\ NoCall
    /\ NoSet /\ NoTable /\ NoString /\ NoStats /\ NoLink

statsFrame ==
    <<dev, table, fillVars, o, ringCount, rssHead, rss, indirHead, indir, key, ret,
      c, hfuncBit, indirBytes, ctxt, memVars, strVars, linkVars>>

StatsFails(err) ==
    /\ statsRet' = StatsReturn(TRUE, <<>>, err)
    /\ pc' = "done"
    /\ UNCHANGED panicked

\* the device wrote names or values of more than MAX_GSTRINGS slots into
\* an array of MAX_GSTRINGS: the process may die, or run on
StatsOverrun(next) ==
    /\ pc' \in {"crashed", next}
    /\ UNCHANGED <<statsRet, panicked>>

\* lines 1053-1063: the GDRVINFO query and the check of n_stats
StatsDrvInfo ==
    /\ pc = "Stats"
    /\ \E e \in Answers :
        /\ ioctls' = Append(ioctls, Request("GDRVINFO", "drvinfo", 0, 0, 0, 0, e, 0,
                                            IF e = "" THEN dev.n_stats ELSE Const32(0)))
        /\ IF e # ""
           THEN StatsFails(Errno(e)) /\ UNCHANGED drvinfo
           ELSE /\ drvinfo' = [n_stats |-> dev.n_stats]
                /\ IF TooManyStats(dev.n_stats)
                   THEN StatsFails(ErrTooManyStats)
                   ELSE pc' = "stats_gstrings" /\ UNCHANGED <<statsRet, panicked>>
    /\ UNCHANGED <<gstrings, stats, statsFrame>>

\* lines 1065-1074: the GSTRINGS request of drvinfo.n_stats names
StatsGStrings ==
    /\ pc = "stats_gstrings"
    /\ gstrings' = [len |-> drvinfo.n_stats]
    /\ \E e \in Answers :
        /\ ioctls' = Append(ioctls, Request("GSTRINGS", "gstrings", 0, 0, 0, 0, e, 0,
                                            drvinfo.n_stats))
        /\ IF e # ""
           THEN StatsFails(Errno(e))
           ELSE IF Gt32(drvinfo.n_stats, Const32(MAX_GSTRINGS))
           THEN StatsOverrun("stats_gstats")
           ELSE pc' = "stats_gstats" /\ UNCHANGED <<statsRet, panicked>>
    /\ UNCHANGED <<drvinfo, stats, statsFrame>>

\* lines 1076-1099: the GSTATS request and the loop that builds the map
StatsGStats ==
    /\ pc = "stats_gstats"
    /\ stats' = [n_stats |-> drvinfo.n_stats]
    /\ \E e \in Answers :
        /\ ioctls' = Append(ioctls, Request("GSTATS", "stats", 0, 0, 0, 0, e, 0,
                                            drvinfo.n_stats))
        /\ IF e # ""
           THEN StatsFails(Errno(e))
           ELSE IF StatsLoopPanics(drvinfo.n_stats)
           THEN \/ pc' = "crashed" /\ UNCHANGED <<statsRet, panicked>>
                \/ /\ pc' = "panicked"
                   /\ panicked' = PanicSlice
                   /\ UNCHANGED statsRet
           ELSE /\ statsRet' = StatsReturn(FALSE,
                                           StatsMap(dev.names, dev.values, drvinfo.n_stats),
                                           NilErr)
                /\ pc' = "done"
                /\ UNCHANGED panicked
    /\ UNCHANGED <<drvinfo, gstrings, statsFrame>>

NextStats == StatsDrvInfo \/ StatsGStrings \/ StatsGStats

SpecStats == InitStats /\ [][NextStats]_vars

-----------------------------------------------------------------------------
(* Link mode bitmaps.  A uint32 word is the set of the positions of its    *)
(* set bits, so that v[k] & (1 << p) != 0 is p \in v[k].                   *)

\* LinkModeTestBit(v, bit):
\*   if bit/8 >= len(v) { return false }; return v[bit/32]&(1<<(bit%32)) != 0
LinkModeTestBit(w, bit) ==
    IF GoDiv(bit, 8) >= Len(w)
    THEN [value |-> FALSE, panic |-> NoPanic]
    ELSE IF GoDiv(bit, 32) < 0 \/ GoDiv(bit, 32) >= Len(w)
    THEN [value |-> FALSE, panic |-> PanicIndex]
    ELSE [value |-> GoMod(bit, 32) \in w[GoDiv(bit, 32) + 1], panic |-> NoPanic]

\* The bits LinkPortNames tests, in its order, with the names it appends:
\* ETHTOOL_LINK_MODE_TP_BIT, AUI, BNC, MII, FIBRE, Backplane.
LinkPortBits ==
    <<[bit |-> 7, name |-> "TP"], [bit |-> 8, name |-> "AUI"],
      [bit |-> 11, name |-> "BNC"], [bit |-> 9, name |-> "MII"],
      [bit |-> 10, name |-> "FIBRE"], [bit |-> 16, name |-> "Backplane"]>>

\* names = append(names, name) for each bit of the list that tests true
RECURSIVE LinkNamesOf(_, _)
LinkNamesOf(w, bits) ==
    IF bits = <<>> THEN <<>>
    ELSE IF LinkModeTestBit(w, Head(bits).bit).value
         THEN <<Head(bits).name>> \o LinkNamesOf(w, Tail(bits))
         ELSE LinkNamesOf(w, Tail(bits))

LinkPortNames(w) == LinkNamesOf(w, LinkPortBits)

\* The bits a word of the bitmaps tried may have set.
LinkBits == {7, 8, 31}

InitLink ==
    /\ pc = "link"
    /\ bitmap \in SeqsUpTo(SUBSET LinkBits, MaxWords)
    /\ bitIndex \in 0..(32 * MaxWords + 1)
    /\ tested = NotTested
    /\ linkNames = <<>>
    /\ dev = NoDevice
    /\ action = Default
    /\ table = <<>>
    /\ filled = NotCalled
    /\ NoCall
    /\ NoSet /\ NoTable /\ NoString /\ NoStats

linkFrame ==
    <<bitmap, bitIndex, dev, table, fillVars, callVars, setVars, memVars, strVars,
      statVars>>

\* tested := LinkModeTestBit(bitmap, bitIndex)
CallLinkModeTestBit ==
    /\ pc = "link"
    /\ tested' = LinkModeTestBit(bitmap, bitIndex)
    /\ pc' = IF tested'.panic # NoPanic THEN "panicked" ELSE "tested"
    /\ UNCHANGED <<linkNames, linkFrame>>

\* linkNames := LinkPortNames(bitmap)
CallLinkPortNames ==
    /\ pc = "link"
    /\ linkNames' = LinkPortNames(bitmap)
    /\ pc' = "named"
    /\ UNCHANGED <<tested, linkFrame>>

NextLink == CallLinkModeTestBit \/ CallLinkPortNames

SpecLink == InitLink /\ [][NextLink]_vars

-----------------------------------------------------------------------------
(* Properties of the fill policies, checked under SpecFill.                *)

Returned(n) ==
    /\ pc = "filled"
    /\ filled.panic = NoPanic
    /\ filled.err = NoError
    /\ filled.n = n

AllWeightsNonNegative == \A k \in 1..Len(action.Weights) : action.Weights[k] >= 0

\* C1 (as stated): after Equal{Start: S, N: N}.Fill(table) with N > 0, every
\* entry table[i] is the integer S + (i mod N) and the call returned
\* (len(table), nil).
C1_EqualFillExact ==
    (pc = "filled" /\ action.kind = "Equal" /\ action.N > 0) =>
        /\ Returned(Len(table))
        /\ \A i \in 0..(Len(table) - 1) :
               table[i + 1] = action.Start + (i % action.N)

\* C1 (amended): after Equal{Start: S, N: N}.Fill(table) with N > 0, every
\* entry table[i] is S + (i mod N) converted to uint32, that is reduced modulo
\* the word size (the same number whenever 0 <= S + (i mod N) fits a uint32),
\* and the call returned (len(table), nil).
C1_EqualFill ==
    (pc = "filled" /\ action.kind = "Equal" /\ action.N > 0) =>
        /\ Returned(Len(table))
        /\ \A i \in 0..(Len(table) - 1) :
               table[i + 1] = (action.Start + (i % action.N)) % Uint32Range

\* C1 witness: L = 8, S = 0, N = 3 gave [0,1,2,0,1,2,0,1].
C1_Witness ==
    /\ pc = "filled"
    /\ action = Equal(0, 3)
    /\ table = <<0, 1, 2, 0, 1, 2, 0, 1>>
    /\ filled.n = 8

\* C2 (as stated): Equal.Fill with N = 0 on a non-empty table ends by returning
\* an error value, never by a run-time panic.
C2_EqualZeroDivisorFails ==
    (pc = "filled" /\ action.kind = "Equal" /\ action.N = 0 /\ Len(table) > 0) =>
        (filled.panic = NoPanic /\ filled.err # NoError)

\* The cumulative weight w[0] + ... + w[j] (j 0-based).
CumWeight(w, j) == SumSeq(SubSeq(w, 1, j + 1))

\* The run owning index i: the smallest j with i < floor(L * CumWeight(j) / sum).
OwnerOf(w, L, i) ==
    CHOOSE j \in 0..(Len(w) - 1) :
        /\ i < (L * CumWeight(w, j)) \div SumSeq(w)
        /\ \A h \in 0..(j - 1) : ~(i < (L * CumWeight(w, h)) \div SumSeq(w))

WeightsAccepted ==
    /\ action.kind = "Weight"
    /\ AllWeightsNonNegative
    /\ SumSeq(action.Weights) > 0
    /\ SumSeq(action.Weights) <= Len(table)

\* C3 (as stated): for non-negative weights with 0 < sum <= len(table), every
\* entry table[i] is the integer S + j, j the smallest index with
\* i < floor(L * (w[0] + ... + w[j]) / sum), and the call returned (L, nil).
C3_WeightFillExact ==
    (pc = "filled" /\ WeightsAccepted) =>
        /\ Returned(Len(table))
        /\ \A i \in 0..(Len(table) - 1) :
               table[i + 1] = action.Start + OwnerOf(action.Weights, Len(table), i)

\* C3 (amended): for non-negative weights with 0 < sum <= len(table), every
\* entry table[i] is S + j converted to uint32 (reduced modulo the word size),
\* j the smallest index with i < floor(L * (w[0] + ... + w[j]) / sum), and the
\* call returned (L, nil).
C3_WeightFill ==
    (pc = "filled" /\ WeightsAccepted) =>
        /\ Returned(Len(table))
        /\ \A i \in 0..(Len(table) - 1) :
               table[i + 1] =
                   (action.Start + OwnerOf(action.Weights, Len(table), i)) % Uint32Range

\* C3 witness: L = 10, S = 0, w = [3,7] gave three entries 0 then seven entries 1.
C3_Witness ==
    /\ pc = "filled"
    /\ action = Weight(0, <<3, 7>>)
    /\ table = <<0, 0, 0, 1, 1, 1, 1, 1, 1, 1>>
    /\ filled.n = 10

\* C4: a Weight.Fill call returns an error exactly when sum(weights) = 0 or
\* sum(weights) > len(table) (and otherwise returns without a panic); when it
\* returns an error the count is 0 and the table is as it was before the call.
C4_WeightFillErrors ==
    [][(pc = "fill" /\ action.kind = "Weight") =>
          /\ filled'.panic = NoPanic
          /\ (filled'.err # NoError) <=>
                 (SumSeq(action.Weights) = 0 \/ SumSeq(action.Weights) > Len(table))
          /\ SumSeq(action.Weights) = 0 => filled'.err = ErrNoWeight
          /\ (SumSeq(action.Weights) # 0 /\ SumSeq(action.Weights) > Len(table)) =>
                 filled'.err = ErrWeightExceeds
          /\ (filled'.err # NoError) => (filled'.n = 0 /\ table' = table)]_vars

\* C4 witness: weights [5,5] over a table of length 9 failed with the capacity error.
C4_Witness ==
    /\ pc = "filled"
    /\ action.kind = "Weight"
    /\ action.Weights = <<5, 5>>
    /\ Len(table) = 9
    /\ filled.err = ErrWeightExceeds
    /\ filled.n = 0

\* C5: Default.Fill and Delete.Fill leave every entry of the table as it was;
\* Default returns (0, nil) and Delete returns (ETH_RXFH_INDIR_NO_CHANGE, nil).
C5_DefaultDeleteFrame ==
    [][(pc = "fill" /\ action.kind \in {"Default", "Delete"}) =>
          /\ table' = table
          /\ filled'.panic = NoPanic
          /\ filled'.err = NoError
          /\ filled'.n = IF action.kind = "Default" THEN 0 ELSE Uint32Range - 1]_vars

\* C5 witness: Delete.Fill returned the sentinel over a table of entries 5.
C5_Witness ==
    /\ pc = "filled"
    /\ action.kind = "Delete"
    /\ filled.n = Uint32Range - 1
    /\ Len(table) = 3
    /\ \A i \in 1..3 : table[i] = 5

\* The number of rings an accepted action spreads over.
RingsUsed ==
    IF action.kind = "Equal" THEN Abs(action.N) ELSE Len(action.Weights)

FillSucceeded ==
    /\ pc = "filled"
    /\ action.kind \in {"Equal", "Weight"}
    /\ filled.panic = NoPanic
    /\ filled.err = NoError

-----------------------------------------------------------------------------
(* Properties of GetFlowHash, checked under SpecGet.                       *)

\* The i-th ioctl of the call was issued and the device answered it with success.
Answered(i) == Len(ioctls) >= i /\ ioctls[i].errno = ""

\* The call issued the full GRSSH request (the third ioctl, on the buffer rss)
\* and the device answered it with success.
FullAnswered == Answered(1) /\ Answered(2) /\ Answered(3) /\ ioctls[3].buf = "rss"

\* The full answer states the sizes the probe stated.
SizesAsProbed == rss.indir_size = rssHead.indir_size /\ rss.key_size = rssHead.key_size

\* The call went through getFlowHashIndirectTable.
LegacyTaken == Len(ioctls) >= 3 /\ ioctls[3].cmd = "GRXFHINDIR"

\* The names of the device's hash function string set.
DevNames == {dev.names[i] : i \in 1..Len(dev.names)} \ {""}

\* C7: when every ioctl of the call succeeds, the full GRSSH answer states the
\* probed sizes n and k and a non-zero hfunc h, and the device reports its hash
\* function string set, GetFlowHash returns without error a FlowHash with the
\* device's ring count, the n table entries and the k key bytes the device
\* wrote, and Funcs holding exactly the device's function names, each true iff
\* the bit of its slot is set in h.
C7_GetDecodes ==
    (/\ pc = "done"
     /\ FullAnswered
     /\ SizesAsProbed
     /\ rss.hfunc # 0
     /\ \A i \in 1..Len(ioctls) : ioctls[i].errno = ""
     /\ Len(ioctls) >= 4 /\ ioctls[4].data = Len(dev.names)) =>
        /\ ~ret.isNil
        /\ ret.err = NilErr
        /\ ret.fh.RingCount = dev.rings
        /\ ret.fh.Table = DevTable(dev.indir_size)
        /\ ret.fh.Key = DevKey(dev.key_size)
        /\ ~ret.fh.Funcs.isNil
        /\ DOMAIN ret.fh.Funcs.m = DevNames
        /\ \A i \in 1..Len(dev.names) :
               dev.names[i] # "" =>
                   (ret.fh.Funcs.m[dev.names[i]] <=>
                        ((dev.hfunc \div (2 ^ (i - 1))) % 2 = 1))

\* C7 witness: a two-entry table, no key, two named functions of which exactly
\* one is enabled.
C7_Witness ==
    /\ pc = "done"
    /\ ~ret.isNil
    /\ dev.rings = 2
    /\ ret.fh.Table = <<1, 0>>
    /\ ret.fh.Key = <<>>
    /\ DOMAIN ret.fh.Funcs.m = {"toeplitz", "xor"}
    /\ Cardinality({nm \in DOMAIN ret.fh.Funcs.m : ret.fh.Funcs.m[nm]}) = 1

\* C8 (as stated): when the full GRSSH answer carries hfunc = 0, GetFlowHash
\* still returns, without error, the ring count, the table and the key, with
\* an empty function map.
C8_ZeroHfuncNotFatal ==
    (pc = "done" /\ FullAnswered /\ SizesAsProbed /\ rss.hfunc = 0) =>
        /\ ~ret.isNil
        /\ ret.err = NilErr
        /\ ret.fh.RingCount = dev.rings
        /\ ret.fh.Table = DevTable(dev.indir_size)
        /\ ret.fh.Key = DevKey(dev.key_size)
        /\ DOMAIN ret.fh.Funcs.m = {}

\* The probe failed with not-supported and a non-default context was asked for.
ProbeUnsupported ==
    /\ Len(ioctls) >= 2
    /\ Answered(1)
    /\ ioctls[2].errno = EOPNOTSUPP
    /\ o.Context # 0

\* C9 (as stated): the legacy path is taken iff the probe failed with
\* EOPNOTSUPP and the context is not 0; a successful call on that path
\* returns the ring count, the table entries the device reports through
\* GRXFHINDIR (here: when it answers the table query with the size it gave
\* the size query), no key and no functions; any other probe failure is
\* returned as an error.
C9_LegacyPath ==
    /\ (Len(ioctls) >= 3) => (LegacyTaken <=> ProbeUnsupported)
    /\ (pc = "done" /\ LegacyTaken /\ ~ret.isNil) =>
           /\ ret.err = NilErr
           /\ ret.fh.RingCount = dev.rings
           /\ (indirHead.size = dev.indir_size) =>
                  ret.fh.Table = DevTable(dev.indir_size)
           /\ ret.fh.Key = <<>>
           /\ ret.fh.Funcs.isNil
    /\ (Len(ioctls) >= 2 /\ Answered(1) /\ ioctls[2].errno # "" /\ ~ProbeUnsupported) =>
           /\ pc = "done"
           /\ ret.isNil
           /\ ErrorsIs(ret.err, ioctls[2].errno)

\* C9, without what it says of the table: the choice of the path, the ring
\* count, the absent key and functions, and the other probe failures.
C9_LegacyPathButTable ==
    /\ (Len(ioctls) >= 3) => (LegacyTaken <=> ProbeUnsupported)
    /\ (pc = "done" /\ LegacyTaken /\ ~ret.isNil) =>
           /\ ret.err = NilErr
           /\ ret.fh.RingCount = dev.rings
           /\ ret.fh.Key = <<>>
           /\ ret.fh.Funcs.isNil
    /\ (Len(ioctls) >= 2 /\ Answered(1) /\ ioctls[2].errno # "" /\ ~ProbeUnsupported) =>
           /\ pc = "done"
           /\ ret.isNil
           /\ ErrorsIs(ret.err, ioctls[2].errno)

\* The sizes of the last answer reach beyond the buffer allocated from the
\* probe, in a call that meets no other failure: every ioctl succeeds, the
\* hash functions are reported, the legacy table is not empty.
AnswerExceedsBuffer ==
    /\ \A i \in 1..Len(ioctls) : ioctls[i].errno = ""
    /\ \/ /\ FullAnswered
          /\ rss.hfunc # 0
          /\ sizeofEthtoolRxfh + IndirectTableSize(rss.indir_size) + rss.key_size
                 > rss.alloc
       \/ /\ LegacyTaken /\ Len(ioctls) = 4
          /\ indir.indir_size > 0
          /\ sizeofEthtoolRxfhIndir + IndirectTableSize(indirHead.size) > indir.alloc

\* C10 (as stated): when the sizes of the full GRSSH (or legacy GRXFHINDIR)
\* answer reach beyond the allocated buffer, the call fails with ERANGE and
\* returns no result, and what it copied out lies inside the buffer.
C10_CapacityError ==
    (pc = "done" /\ AnswerExceedsBuffer) =>
        /\ ret.isNil
        /\ ErrorsIs(ret.err, ERANGE)
        /\ RawReadInBounds(table, rss.trail, rss.indir_size)
        /\ IndirectTableSize(Len(table)) + Len(key) <= Len(rss.trail)

\* What does hold of C10: a key size in the answer above the probed one ends
\* the call with ERANGE, and no copy ever reads outside the buffer.
C10_KeyCapacityError ==
    /\ (pc = "done" /\ FullAnswered /\ rss.key_size > rssHead.key_size) =>
           (ret.isNil /\ ErrorsIs(ret.err, ERANGE))
    /\ FullAnswered =>
           /\ RawReadInBounds(table, rss.trail, rss.indir_size)
           /\ IndirectTableSize(Len(table)) + Len(key) <= Len(rss.trail)

-----------------------------------------------------------------------------
(* Properties of SetFlowHash, checked under SpecSet.                       *)

SetEnded == pc \in {"done", "panicked", "crashed"}

\* The ring count query and the GRSSH probe both succeeded.
SetProbed ==
    /\ Len(ioctls) >= 2
    /\ ioctls[1].errno = ""
    /\ ioctls[2].errno = ""

Sent(cmd) == \E i \in 1..Len(ioctls) : ioctls[i].cmd = cmd

\* The action is a pointer to an object of the type.
ActionIs(type) == c.Action = Iface(type, "obj")

\* The table bytes of the request for the action: those of the probed table
\* for Equal and Weight, none for Default and Delete.
TableBytesFor(x) ==
    IF x.type \in {"Equal", "Weight"} THEN IndirectTableSize(rssHead.indir_size) ELSE 0

\* C11 (as stated): a SetFlowHash call with an Equal, Weight, Default or
\* Delete action that has probed the device and asks for no hash function
\* allocates its SRSSH request buffer with exactly header_size + T + key_size
\* bytes, T being the table bytes for Equal and Weight and 0 for Default and
\* Delete.
C11_RequestBufferSize ==
    (SetEnded /\ SetProbed /\ c.Action.ptr = "obj" /\ c.Func = "") =>
        /\ rss.state # "none"
        /\ rss.alloc = sizeofEthtoolRxfh + TableBytesFor(c.Action) + rssHead.key_size

\* What does hold of C11: a request buffer is allocated only for an Equal
\* action, and then has header_size + 4 * indir_size + key_size bytes.
C11_EqualRequestBuffer ==
    rss.state # "none" =>
        /\ ActionIs("Equal")
        /\ rss.alloc = sizeofEthtoolRxfh + IndirectTableSize(rssHead.indir_size)
                           + rssHead.key_size

\* The indir_size a request states for the action: the count its fill
\* returns (the probed size for Equal and Weight, 0 for Default), and the
\* no-change sentinel for Delete.
IndirSizeFor(x) ==
    CASE x.type \in {"Equal", "Weight"} -> rssHead.indir_size
      [] x.type = "Default" -> 0
      [] x.type = "Delete" -> ETH_RXFH_INDIR_NO_CHANGE

\* C12 (as stated): a SetFlowHash call with an Equal, Default or Delete
\* action that has probed the device and asks for no hash function issues
\* an SRSSH request whose indir_size is the count applied by the fill, or
\* the no-change sentinel for Delete.
C12_RequestIndirSize ==
    (SetEnded /\ SetProbed /\ c.Func = ""
        /\ (ActionIs("Equal") \/ ActionIs("Default") \/ ActionIs("Delete"))) =>
        \E i \in 1..Len(ioctls) :
            /\ ioctls[i].cmd = "SRSSH"
            /\ ioctls[i].indir_size = IndirSizeFor(c.Action)

\* The call returned without error.
SetSucceeded == pc = "done" /\ ret.err = NilErr

\* C13 (as stated): when SetFlowHash succeeds, the returned context is the
\* one the device wrote into the rss_context field of the SRSSH request if
\* the requested context is the allocate-new sentinel, and zero otherwise.
C13_ReturnedContext ==
    SetSucceeded =>
        IF c.Context = ETH_RXFH_CONTEXT_ALLOC
        THEN Sent("SRSSH") /\ ctxt = rss.rss_context
        ELSE ctxt = 0

\* What does hold of C13: a call that succeeds went the legacy way and
\* returns context zero, whatever context was requested.
C13_LegacyReturnsZero ==
    SetSucceeded => (Sent("SRXFHINDIR") /\ ~Sent("SRSSH") /\ ctxt = 0)

\* Every ioctl issued so far succeeded, and the device did not report a
\* string set beyond MAX_GSTRINGS.
SetAnswersFine ==
    \A i \in 1..Len(ioctls) :
        /\ ioctls[i].errno = ""
        /\ ioctls[i].data <= MAX_GSTRINGS

\* The requested hash function is not a name of the device's string set.
FuncAbsent == c.Func # "" /\ \A i \in 1..Len(dev.names) : dev.names[i] # c.Func

\* C14 (as stated): when the requested hash function is absent from the
\* device's names, a call with an Equal action whose ioctls all succeed
\* fails with the unknown-hash-function error and issues no SRSSH, whatever
\* bitmask the probe reported.
C14_UnknownHashFunction ==
    (SetEnded /\ SetProbed /\ SetAnswersFine /\ ActionIs("Equal") /\ FuncAbsent) =>
        /\ pc = "done"
        /\ ret.err = ErrUnknownHash
        /\ ~Sent("SRSSH")

\* What does hold of C14: the same when the probe reported a non-zero
\* bitmask.
C14_UnknownWhenMaskSet ==
    (SetEnded /\ SetProbed /\ SetAnswersFine /\ ActionIs("Equal") /\ FuncAbsent
        /\ rssHead.hfunc # 0) =>
        /\ pc = "done"
        /\ ret.err = ErrUnknownHash
        /\ ~Sent("SRSSH")

\* The action is a Weight whose fill fails on a table of the device's size.
WeightFails ==
    /\ ActionIs("Weight")
    /\ WeightFill(action, NewIndirectTable(dev.indir_size)).err # NoError

\* C15 (as stated): when the fill of a Weight action fails, a call that has
\* probed the device and asks for no hash function returns the error of the
\* fill and has issued no set ioctl.
C15_FillErrorReturned ==
    (SetEnded /\ SetProbed /\ c.Func = "" /\ WeightFails) =>
        /\ pc = "done"
        /\ ret.err = FillError(WeightFill(action, NewIndirectTable(dev.indir_size)).err)
        /\ ~Sent("SRSSH") /\ ~Sent("SRXFHINDIR")

\* What does hold of C15: no set ioctl is ever issued for such an action.
C15_NoSetIoctl == WeightFails => (~Sent("SRSSH") /\ ~Sent("SRXFHINDIR"))

\* C20 (as stated): a SetFlowHash call with a pointer to an Equal (N > 0),
\* Weight, Default or Delete object as its action, or with no action, never
\* ends in a run-time panic.
C20_NeverPanics ==
    ((c.Action.ptr = "obj" \/ c.Action = NilAction)
        /\ (ActionIs("Equal") => action.N > 0)) =>
        pc # "panicked"

\* What does hold of C20: the only calls that get past the probe to their
\* end without a panic are those whose action is a nil *Delete, and those an
\* Equal action whose hash function lookup failed.
C20_PanicsUnlessNilDelete ==
    (SetEnded /\ Len(ioctls) >= 2 /\ pc # "panicked") =>
        \/ ioctls[2].errno # "" /\ ~(ioctls[2].errno = EOPNOTSUPP /\ Len(c.Key) = 0 /\ c.Func = "")
        \/ ioctls[2].errno # "" /\ c.Action.type = "Delete"
        \/ ioctls[2].errno = "" /\ ActionIs("Equal") /\ ret.err # NilErr

-----------------------------------------------------------------------------
(* GetFlowHash and SetFlowHash calls together.                             *)

InitCalls == InitGet \/ InitSet

NextCalls == NextGet \/ NextSet

SpecCalls == InitCalls /\ [][NextCalls]_vars

\* The i-th ioctl failed.
Failed(i) == ioctls[i].errno # ""

ProbeFellBack(i) ==
    /\ ioctls[i].cmd = "GRSSH"
    /\ ioctls[i].buf = "rssHead"
    /\ ioctls[i].errno = EOPNOTSUPP
    /\ i < Len(ioctls)
    /\ ioctls[i + 1].cmd = "GRXFHINDIR"

Released(buf) == buf.state \in {"none", "freed"}
NotReleased(buf) == buf.state \in {"none", "live"}

\* C17: a call that has returned or panicked has released every scratch
\* buffer it allocated, once; while the call runs no buffer is released; the
\* table and the key change only in a step that reads a live buffer, and the
\* Table and Key returned are those copies.
C17_ScratchReleased ==
    /\ [](/\ pc \in {"done", "panicked"} => (Released(rss) /\ Released(indir))
          /\ pc \notin {"done", "panicked"} => (NotReleased(rss) /\ NotReleased(indir))
          /\ (pc = "done" /\ ~ret.isNil) => (ret.fh.Table = table /\ ret.fh.Key = key))
    /\ [][(table' # table \/ key' # key) =>
              \/ pc = "probe" /\ table' = NewIndirectTable(Len(table')) /\ key' = key
              \/ pc = "legacy" /\ table' = NewIndirectTable(Len(table')) /\ key' = key
              \/ pc = "full" /\ rss.state = "live"
              \/ pc = "legacy_full" /\ indir.state = "live"
              \/ pc = "set_legacy" /\ key' = key]_vars

\* A GetFlowHash call that returned a table and a key, its buffer released.
C17_Witness ==
    /\ pc = "done"
    /\ ~ret.isNil
    /\ rss.state = "freed"
    /\ ret.fh.Table = <<1, 0>>
    /\ Len(ret.fh.Key) = MaxKey

-----------------------------------------------------------------------------
(* Properties of IndirectTable, checked under SpecTable.                   *)

\* Size() is 4 bytes per entry; the raw view and the clone, until something
\* is written, have the length and the entries of t.
TableAgrees ==
    /\ TableSize(Entries(heap, orig)) = 4 * orig.len
    /\ (pc = "table" /\ view # NoSlice) =>
           (view.len = orig.len /\ Entries(heap, view) = Entries(heap, orig))
    /\ (pc = "table" /\ clone # NoSlice) =>
           (clone.len = orig.len /\ Entries(heap, clone) = Entries(heap, orig))

\* A step that writes to t leaves the clone as it was, and one that writes
\* to the clone leaves t as it was.
CloneApart ==
    (clone # NoSlice /\ clone' = clone) =>
        \/ Entries(heap', orig') = Entries(heap, orig)
        \/ Entries(heap', clone') = Entries(heap, clone)

\* C18 (as stated): for every table t of N entries, Size() is 4 * N, the raw
\* view of N entries over a buffer holding t's bytes exists and has the
\* entries of t, and the clone has the length and entries of t and shares no
\* storage with it.
C18_TableExact ==
    /\ [](TableAgrees /\ pc # "panicked")
    /\ [][CloneApart]_vars

\* C18 (amended): the same for every table of at most 1 << 24 entries, the
\* longest raw view there is.
C18_Table ==
    /\ [](TableAgrees /\ (orig.len <= RawViewCap => pc # "panicked"))
    /\ [][CloneApart]_vars

\* A table of MaxLen entries with its view and its clone, after a write to
\* the table that the clone did not see.
C18_Witness ==
    /\ pc = "written"
    /\ orig.len = MaxLen
    /\ view # NoSlice
    /\ clone # NoSlice
    /\ Entries(heap, orig)[1] = 2
    /\ Entries(heap, clone)[1] = 1
    /\ Entries(heap, view)[1] = 1

-----------------------------------------------------------------------------
(* Properties of goString, checked under SpecString.                       *)

\* C19: goString(s) is the bytes of s before its first zero byte, and all
\* of s when it has none: a prefix of s without a zero byte that either is
\* all of s or is followed in s by a zero byte.
C19_GoString ==
    pc = "returned" =>
        /\ Len(gostr) <= Len(cstr)
        /\ \A i \in 1..Len(gostr) : gostr[i] = cstr[i] /\ gostr[i] # 0
        /\ Len(gostr) = Len(cstr) \/ cstr[Len(gostr) + 1] = 0
        /\ cstr = <<>> => gostr = <<>>

\* "1.\0.": the result is "1.", and the byte after the zero byte is dropped.
C19_Witness ==
    /\ pc = "returned"
    /\ cstr = <<49, 46, 0, 46>>
    /\ gostr = <<49, 46>>

-----------------------------------------------------------------------------
(* Properties of the requests, checked under SpecGet, SpecSet, SpecCalls.  *)

\* The header of the structure a request passes.
HeaderSize(r) ==
    IF r.cmd \in {"GRSSH", "SRSSH"} THEN sizeofEthtoolRxfh ELSE sizeofEthtoolRxfhIndir

\* The request passes a buffer that holds the trailing bytes its header states.
BufferFits(r) ==
    r.cmd \in {"GRSSH", "SRSSH", "GRXFHINDIR", "SRXFHINDIR"} =>
        HeaderSize(r) + IndirectTableSize(r.indir_size) + r.key_size <= r.bufsize

\* C21 (as stated): every request of a GetFlowHash call passes a buffer of
\* at least the header size plus 4 * the stated indir_size plus the stated
\* key_size, and the device writes nothing past it.
C21_BufferFits ==
    \A i \in 1..Len(ioctls) :
        /\ BufferFits(ioctls[i])
        /\ HeaderSize(ioctls[i]) + ioctls[i].written <= ioctls[i].bufsize
               \/ ioctls[i].written = 0

\* What does hold of C21: the same of every request but the second
\* GRXFHINDIR of the legacy path.
C21_BufferFitsButLegacy ==
    \A i \in 1..Len(ioctls) :
        (ioctls[i].buf = "indirHead" /\ ioctls[i].indir_size > 0)
        \/ /\ BufferFits(ioctls[i])
           /\ HeaderSize(ioctls[i]) + ioctls[i].written <= ioctls[i].bufsize
                  \/ ioctls[i].written = 0

\* C22: the ioctls of GetFlowHash start with the ring count query; a second
\* one is issued only if that succeeded and is the header-only GRSSH probe
\* with zero sizes and the requested context; a GRSSH request after it is
\* issued only if the probe succeeded, on a zeroed buffer of exactly
\* header_size + 4 * indir_size + key_size bytes, with the probed sizes and
\* the requested context.
C22_GetOrder ==
    /\ Len(ioctls) >= 1 => ioctls[1].cmd = "GRXRINGS"
    /\ Len(ioctls) >= 2 =>
           /\ ioctls[1].errno = ""
           /\ ioctls[2].cmd = "GRSSH"
           /\ ioctls[2].buf = "rssHead"
           /\ ioctls[2].indir_size = 0 /\ ioctls[2].key_size = 0
           /\ ioctls[2].context = o.Context
    /\ (Len(ioctls) >= 3 /\ ioctls[3].cmd = "GRSSH") =>
           /\ ioctls[2].errno = ""
           /\ ioctls[3].buf = "rss"
           /\ ioctls[3].bufsize = sizeofEthtoolRxfh + 4 * rssHead.indir_size
                                      + rssHead.key_size
           /\ ioctls[3].indir_size = rssHead.indir_size
           /\ ioctls[3].key_size = rssHead.key_size
           /\ ioctls[3].context = o.Context
    /\ pc = "full" =>
           /\ rss.alloc = sizeofEthtoolRxfh + 4 * rssHead.indir_size + rssHead.key_size
           /\ Len(rss.trail) = 4 * rssHead.indir_size + rssHead.key_size
           /\ \A k \in 1..Len(rss.trail) : rss.trail[k] = 0
           /\ rss.indir_size = rssHead.indir_size
           /\ rss.key_size = rssHead.key_size
           /\ rss.rss_context = o.Context

\* The full request of a call for context 1, on a device with the largest
\* table and key.
C22_Witness ==
    /\ Len(ioctls) >= 3
    /\ ioctls[3].cmd = "GRSSH"
    /\ ioctls[3].context = 1
    /\ ioctls[3].indir_size = MaxIndir
    /\ ioctls[3].key_size = MaxKey
    /\ ioctls[3].bufsize = sizeofEthtoolRxfh + 4 * MaxIndir + MaxKey

\* The probe answered EOPNOTSUPP and the request is table-only.
TableOnlyFallback ==
    /\ Len(ioctls) >= 2
    /\ ioctls[1].errno = ""
    /\ ioctls[2].errno = EOPNOTSUPP
    /\ Len(c.Key) = 0
    /\ c.Func = ""
    /\ (ActionIs("Equal") \/ ActionIs("Weight") \/ ActionIs("Default"))

\* C23 (as stated): on an EOPNOTSUPP probe, a table-only call with an Equal,
\* Weight or Default action takes the legacy path: it queries the size with
\* GRXFHINDIR and, if that succeeds and the fill does, issues SRXFHINDIR on
\* a buffer of header + 4 * size bytes and returns context 0.  In every
\* other case of a failed probe the probe's error is returned and no set
\* ioctl is issued.
C23_LegacySet ==
    /\ (SetEnded /\ TableOnlyFallback) =>
           /\ pc = "done"
           /\ ctxt = 0
           /\ Len(ioctls) >= 3
           /\ ioctls[3].cmd = "GRXFHINDIR"
           /\ (ioctls[3].errno = "" /\ ~WeightFails) =>
                  /\ Len(ioctls) = 4
                  /\ ioctls[4].cmd = "SRXFHINDIR"
                  /\ ioctls[4].bufsize = sizeofEthtoolRxfhIndir + 4 * indirHead.size
    /\ (SetEnded /\ Len(ioctls) >= 2 /\ ioctls[1].errno = "" /\ Failed(2)
            /\ c.Action.ptr = "obj" /\ ~TableOnlyFallback) =>
           /\ pc = "done"
           /\ ErrorsIs(ret.err, ioctls[2].errno)
           /\ ~Sent("SRSSH") /\ ~Sent("SRXFHINDIR")

\* What does hold of C23: its second half.
C23_ProbeErrorReturned ==
    (SetEnded /\ Len(ioctls) >= 2 /\ ioctls[1].errno = "" /\ Failed(2)
        /\ c.Action.ptr = "obj" /\ ~TableOnlyFallback) =>
        /\ pc = "done"
        /\ ErrorsIs(ret.err, ioctls[2].errno)
        /\ ~Sent("SRSSH") /\ ~Sent("SRXFHINDIR")

\* The i-th request is the header-only GRSSH probe.
IsProbe(i) == ioctls[i].cmd = "GRSSH" /\ ioctls[i].buf = "rssHead"

\* C24 (as stated): the header-only GRSSH probe of SetFlowHash states zero
\* trailing sizes and the RSS context the caller requested.
C24_SetProbeContext ==
    \A i \in 1..Len(ioctls) :
        IsProbe(i) =>
            /\ ioctls[i].indir_size = 0 /\ ioctls[i].key_size = 0
            /\ ioctls[i].context = c.Context

\* What does hold of C24: the probe states zero trailing sizes, and context 0.
C24_SetProbeZero ==
    \A i \in 1..Len(ioctls) :
        IsProbe(i) =>
            /\ ioctls[i].indir_size = 0 /\ ioctls[i].key_size = 0
            /\ ioctls[i].context = 0

\* The call is over: it returned, panicked or crashed.
Ended == pc \in {"done", "panicked", "crashed"}

\* No ioctl follows a failed one, but the legacy ioctls a failed probe.
NoIoctlAfterFailure ==
    \A i \in 1..Len(ioctls) : (Failed(i) /\ i < Len(ioctls)) => ProbeFellBack(i)

\* C25 (as stated): no ioctl follows a failed one, but for the legacy
\* fallback after an EOPNOTSUPP probe; and a call whose last ioctl failed
\* returns an error to its caller.
C25_FailureEndsCall ==
    /\ NoIoctlAfterFailure
    /\ (Ended /\ Len(ioctls) >= 1 /\ Failed(Len(ioctls))) =>
           (pc = "done" /\ ret.err # NilErr /\ ret.isNil)

\* What does hold of C25: no ioctl follows a failed one but for the
\* fallback, and a call that returns after a failed last ioctl returns an
\* error.
C25_FailureEndsReturningCall ==
    /\ NoIoctlAfterFailure
    /\ (pc = "done" /\ Len(ioctls) >= 1 /\ Failed(Len(ioctls))) =>
           (ret.err # NilErr /\ ret.isNil)

\* C26: the writes the claim is about are never reached.  The assertion of
\* line 1278 panics in every call that gets there, so that neither the fill
\* of line 1285 nor the key copy of line 1298 is ever run, and no call sends
\* SRSSH.
C26_WritesUnreached ==
    /\ pc = "set_fill" => TypeAssert(c.Action, "Delete").panic # NoPanic
    /\ ~Sent("SRSSH")
    /\ pc # "crashed"

-----------------------------------------------------------------------------
(* Further properties of Weight.Fill, checked under SpecFill.              *)

\* C27: for every weights vector, zero and negative entries included, with
\* 0 < sum <= len(table), Weight.Fill ends without reading Weights[j] at a
\* j >= len(Weights): it returns (len(table), nil).
C27_WeightFillInRange ==
    (pc = "filled" /\ action.kind = "Weight"
        /\ SumSeq(action.Weights) > 0 /\ SumSeq(action.Weights) <= Len(table)) =>
        /\ filled.panic = NoPanic
        /\ Returned(Len(table))

\* A fill with a negative weight in front: Weights = [-1, 2] over 3 entries.
C27_Witness ==
    /\ pc = "filled"
    /\ action.kind = "Weight"
    /\ action.Weights = <<-1, 2>>
    /\ Len(table) = 3
    /\ Returned(3)

\* The number of entries of the table that hold ring r.
Occupied(r) == Cardinality({i \in 1..Len(table) : table[i] = r})

NonDecreasing == \A i \in 1..(Len(table) - 1) : table[i] <= table[i + 1]

\* C28 (as stated): after a successful Weight.Fill with non-negative weights
\* the table is non-decreasing, ring Start + j occupies at least Weights[j]
\* entries, exactly Weights[j] when sum = len(table), and a ring of weight 0
\* occupies none.
C28_WeightShapeExact ==
    (pc = "filled" /\ WeightsAccepted /\ Returned(Len(table))) =>
        /\ NonDecreasing
        /\ \A j \in 0..(Len(action.Weights) - 1) :
               /\ Occupied(action.Start + j) >= action.Weights[j + 1]
               /\ SumSeq(action.Weights) = Len(table) =>
                      Occupied(action.Start + j) = action.Weights[j + 1]
               /\ action.Weights[j + 1] = 0 => Occupied(action.Start + j) = 0

\* C28 (amended): after a successful Weight.Fill with non-negative weights
\* ring uint32(Start + j) occupies at least Weights[j] entries, exactly
\* Weights[j] when sum = len(table), and none when Weights[j] = 0; and the
\* table is non-decreasing when Start >= 0.
C28_WeightShape ==
    (pc = "filled" /\ WeightsAccepted /\ Returned(Len(table))) =>
        /\ action.Start >= 0 => NonDecreasing
        /\ \A j \in 0..(Len(action.Weights) - 1) :
               /\ Occupied(Uint32(action.Start + j)) >= action.Weights[j + 1]
               /\ SumSeq(action.Weights) = Len(table) =>
                      Occupied(Uint32(action.Start + j)) = action.Weights[j + 1]
               /\ action.Weights[j + 1] = 0 =>
                      Occupied(Uint32(action.Start + j)) = 0

\* Weights = [0, 2] over 5 entries: ring Start is skipped, ring Start + 1
\* takes the table; and Weights = [1, 2] over 3 entries is split 1 and 2.
C28_Witness ==
    /\ pc = "filled"
    /\ action.kind = "Weight"
    /\ action.Start = 0
    /\ Returned(Len(table))
    /\ \/ action.Weights = <<0, 2>> /\ Len(table) = 5 /\ Occupied(1) = 5
       \/ action.Weights = <<1, 2>> /\ Len(table) = 3 /\ Occupied(0) = 1

-----------------------------------------------------------------------------
(* Properties of Stats, checked under SpecStats.                           *)

\* The GDRVINFO query succeeded.
DrvInfoRead == Len(ioctls) >= 1 /\ ioctls[1].errno = ""

StatsRejected ==
    /\ pc = "done"
    /\ statsRet.isNil
    /\ statsRet.err = ErrTooManyStats
    /\ Len(ioctls) = 1

\* C29 (as stated): for every n_stats above MAX_GSTRINGS that the driver
\* reports, Stats returns the "doesn't support more than" error without
\* issuing GSTRINGS or GSTATS and without indexing outside its arrays.
C29_RejectsAboveMax ==
    (DrvInfoRead /\ Gt32(dev.n_stats, Const32(MAX_GSTRINGS))) => StatsRejected

\* What does hold of C29: Stats rejects n_stats exactly when n_stats * 32
\* reduced modulo 2^32 is above MAX_GSTRINGS * 32, and a call that goes on
\* with an n_stats of at most MAX_GSTRINGS does not panic.
C29_RejectsWrappedProduct ==
    DrvInfoRead =>
        /\ TooManyStats(dev.n_stats) <=> StatsRejected
        /\ ~Gt32(dev.n_stats, Const32(MAX_GSTRINGS)) =>
               (~StatsRejected /\ pc \notin {"panicked", "crashed"})

-----------------------------------------------------------------------------
(* Properties of the link mode bitmaps, checked under SpecLink.            *)

\* Bit b of the bitmap is there and set.
BitSet(b) ==
    /\ b < 32 * Len(bitmap)
    /\ (b % 32) \in bitmap[(b \div 32) + 1]

\* C30 (as stated): LinkModeTestBit(v, b) is true iff b < 32 * len(v) and
\* bit (b mod 32) of v[b div 32] is set, without indexing v out of range;
\* and LinkPortNames reports exactly the port modes whose bit is set.
C30_TestBit ==
    /\ pc # "panicked"
    /\ pc = "tested" => (tested.value <=> BitSet(bitIndex))
    /\ pc = "named" =>
           \A k \in 1..Len(LinkPortBits) :
               (\E h \in 1..Len(linkNames) : linkNames[h] = LinkPortBits[k].name)
                   <=> BitSet(LinkPortBits[k].bit)

\* What does hold of C30: LinkModeTestBit(v, b) is true iff b < 8 * len(v)
\* and the bit is set, without indexing v out of range.
C30_TestBitBelowEight ==
    /\ pc # "panicked"
    /\ pc = "tested" =>
           (tested.value <=> (bitIndex < 8 * Len(bitmap) /\ BitSet(bitIndex)))

====
